---------------------------- MODULE Spec2Model ----------------------------
(***************************************************************************)
(* Verification model of the skewer syslog collector's transport engine:   *)
(*   - RawTCPRing, the CAS-only MPMC ring (utils/queue/rawtcp.go)          *)
(*   - the direct-RELP response writer and service status machine          *)
(*     (services/network/directrelp.go)                                    *)
(*   - the HTTP and TCP destinations (store/dests)                         *)
(* Each subsystem has its own specification; the variables of the other    *)
(* subsystems stay at their initial values under it.                       *)
(***************************************************************************)
EXTENDS Integers, Sequences, FiniteSets, TLC

(***************************************************************************)
(* Bounds of the model.                                                    *)
(***************************************************************************)
\* requested size of the ring handed to NewRawTCPRing
RingSize == 2
\* number of Put/Offer calls issued in a run
MaxPuts == 3
\* number of Get/Poll calls issued in a run
MaxGets == 3
\* highest transaction number the RELP client sends on the connection
MaxTxnr == 3
\* number of verdicts forwarded for the connection in a run
MaxVerdicts == 3
\* number of parser goroutines Start launches (runtime.NumCPU())
NumParsers == 2
\* number of messages handed to the HTTP destination in a run
HttpMsgs == 3
\* number of dosend goroutines (config.MaxIdleConnsPerHost)
HttpWorkers == 2
\* number of messages handed to the TCP destination in a run
TcpMsgs == 4
\* number of dofatal calls each sending goroutine makes in a run
MaxFatalCalls == 2
\* number of connections and packet sockets the binder creates in a run
MaxConns == 3
\* number of commands the binder reads from its parent socket in a run
MaxCmds == 4
\* number of stream listeners the binder opens in a run
MaxListeners == 2
\* longest buffer handed to the split function
MaxBuf == 4
\* max_input_message_size of the TCP source, and frames a client sends
MaxMessageSize == 3
MaxFrames == 2
\* commands the parent writes to the configuration child
MaxProvCmds == 4
\* messages the configuration child writes before its output ends
MaxChildMsgs == 3
\* signals sent to the supervisor, configurations sent by the service
MaxSignals == 2
MaxNewConfs == 2
\* messages taken from the parsed queue by push2kafka
MaxPushed == 3
\* Put calls on the IntQueue
MaxIntPuts == 3
\* loads of the configuration started by the child, updates sent by a load
MaxLoads == 2
MaxUpdates == 2

\* goroutines calling into the ring
Procs == {"p1", "p2"}

NoItem == 0

VARIABLES
    \* ---- RawTCPRing fields
    queue, dequeue, disposed, nodes,
    \* ---- per-goroutine position inside put / Poll, and their locals
    pc, pos, seq, item, offer, timed, nb, res, ret,
    \* ---- call counters
    nputs, ngets,
    \* ---- history: items by claimed enqueue position, items handed out by
    \*      claimed dequeue position, waiters blocked when Dispose ran,
    \*      whether the ring was full at some instant of a running call
    \*      whether the call was issued on an already disposed ring
    enq, got, blockedAtDispose, sawFull, onDisposed,
    \* ---- history: some Get or Poll has returned ErrDisposed
    toldDisposed,
    \* ---- direct RELP, one connection: the forwarder's three queues for
    \*      the connection and whether the connection has been removed
    fwdSucc, fwdFail, fwdComm, fwdRemoved,
    \* ---- handleResponses: its position and locals
    hrpc, successes, failures, currentTxnr,
    \* ---- the client connection: its state and the rsp frames written
    conn, written,
    \* ---- history: txnrs in the order the client sent them, number of
    \*      verdicts forwarded, txnrs that have a verdict, txnrs whose first
    \*      verdict came while an earlier txnr had none
    received, nverdicts, verdicted, early,
    \* ---- direct-RELP service: status, the status channel, the status
    \*      mutex holder, the two WaitGroups
    status, StatusChan, chanClosed, statusLock, wg, parsewg,
    \* ---- listeners, queues, Kafka producer, forwarder connections
    listening, rawQDisposed, parsedDisposed, producerOpen, connsRemoved,
    \* ---- position of each service goroutine, arguments of its doStop,
    \*      sleeping EndWait goroutines, the wrapper's fatal channel
    spc, stopKind, timers, fatalErrorChan,
    \* ---- history: a fatal Kafka error arrived while status was Started
    fatalWhileStarted,
    \* ---- HTTP destination: the send queue, each dosend goroutine's
    \*      position and message, reports made to the store, closes of the
    \*      fatal channel, progress of Close
    sendQueue, sendQueueDisposed, wpc, wmsg, httpReports, httpFatal,
    httpClose,
    \* ---- history: how each message's dosendOne ended, number of sendOne
    \*      calls, uids the send queue accepted
    httpResult, httpSent, httpAccepted,
    \* ---- TCP destination: uid of the last message written and not yet
    \*      acked, reports made to the store, closes of the fatal channel,
    \*      whether Close was called
    previousUid, tcpReports, tcpFatal, tcpClosed,
    \* ---- history: number of sendOne calls, uids whose write succeeded
    tcpSent, tcpWritten,
    \* ---- fatal sentinel of one destination: whether the destination has
    \*      been created, its configured rebind period, the store context,
    \*      whether the rebind period has elapsed
    destCreated, rebindPeriod, ctxDone, timerElapsed,
    \* ---- sync.Once of the destination, closes of the fatal channel, the
    \*      destination's fatal counter
    onceDone, onceLock, fatalCloses, fatalCounter,
    \* ---- position of each goroutine that can call dofatal
    fpc,
    \* ---- history: dofatal calls issued and returned per goroutine, the
    \*      rebind goroutine called dofatal, the context was cancelled before
    \*      the period had elapsed, the rebind goroutine took the ctx.Done case
    fcalls, freturned, rebindFatal, cancelledFirst, tookCtxDone,
    \* ---- binder main loop: its position, the uid carried by the message it
    \*      is sending to the manager, the listeners map (address -> listener)
    bmain, barg, listeners,
    \* ---- the stream listeners opened so far, each with its accept goroutine
    lst,
    \* ---- connection manager goroutine: its position and its three maps
    mgr, connections, packetconnections, connfiles,
    \* ---- every connection created so far: address and whether it is closed
    conns,
    \* ---- the uid generator, the number of commands read
    nextUid, ncmds,
    \* ---- history: uids announced with newconn, how each connection was
    \*      closed, addresses with a stopped message and no listen since, uids
    \*      announced for such an address, a reset was fully processed and no
    \*      listen command came since
    \*      listen command came since, uids named by a closeconn command
    handed, closeCause, stoppedAddrs, lateNewconn, resetDone, closeNamed,
    \* TcpSplit: the buffer and flag it is called with, and what it returned
    splitData, splitAtEOF, splitPc, splitRet,
    \* ---- TCP source: what the client sends and the framing configured
    sentFrames, lineFraming, srcWire,
    \* ---- the bufio.Scanner of the connection: s.buf[s.start:s.end], s.start, s.err
    scanBuf, scanStart, scanErr,
    \* ---- HandleConnection: its position and how it ended
    hpc, connEnd,
    \* ---- the raw queue, the parser workers and what they produced
    rawQueue, rawDisposed, incomingMsgs, ppc, praw, ParsingErrorCounter,
    decodeFailed, stashed, srcFatal, pdone,
    \* ---- configuration child (LaunchConfProvider): which source file it was
    \* ---- built from, its loop, its variables, what it wrote to its parent and
    \* ---- the parameters each call of start() was given
    provBuild, provPc, provParams, provConfdir, provCancel, provOut, provCmds,
    provDecoded, provUsed,
    \* ---- ConfigurationService.Start and setupConfiguration: the caller, the
    \* ---- reader goroutine, startedChan with its sync.Once, c.output, and
    \* ---- what the reader has read from the child
    csPc, rdPc, confOnce, startedSends, startedCloses, sentAfterClose, confKill,
    outputClosed, startResult, readLog, confReceived,
    \* ---- serveChild: the Serve loop, its signal channel, the configuration
    \* ---- channel, the store's ShutdownChan watcher and ShutdownControllers
    supPc, shutdownDone, supConf, startConf, lastNewConf, confsReceived,
    confChanClosed, sigChan, sigNotify, sigChanNil, sigArrived, termQueued,
    reloadsAsked, storeShut, supJournald, ctlReturned, ctlShut, storeShutdown,
    \* ---- push2kafka: what pushOne did with each message it was given
    pushLog,
    \* ---- IntQueue: head, tail, disposed, the nodes' next and uid fields, the
    \* ---- producers' positions and locals
    iqHead, iqTail, iqDisposed, iqNext, iqUid, iqPc, iqNode, iqPrev,
    \* ---- history: nodes allocated, values whose Put returned nil, values in
    \* ---- the order the Puts swapped the head, values the consumer got, and
    \* ---- whether a Has or a Get missed a value that was put and not consumed
    iqAlloc, iqReturned, iqOrder, iqGot, iqHasMissed, iqGetMissed,
    \* ---- the configuration child: start, reload and the writeNewConf goroutines
    rlBuild, rlPc, rlCmd, rlLoads, rlCancel, rlCancelled, rlKind, rlUpdated,
    rlUpdates, wtPc, wtMarshalOk, rlOut

ringVars == <<queue, dequeue, disposed, nodes, pc, pos, seq, item, offer,
              timed, nb, res, ret, nputs, ngets, enq, got,
              blockedAtDispose, sawFull, onDisposed, toldDisposed>>

relpVars == <<fwdSucc, fwdFail, fwdComm, fwdRemoved, hrpc, successes,
              failures, currentTxnr, conn, written, received, nverdicts,
              verdicted, early>>

svcVars == <<status, StatusChan, chanClosed, statusLock, wg, parsewg,
             listening, rawQDisposed, parsedDisposed, producerOpen,
             connsRemoved, spc, stopKind, timers, fatalErrorChan,
             fatalWhileStarted>>

httpVars == <<sendQueue, sendQueueDisposed, wpc, wmsg, httpReports,
              httpFatal, httpClose, httpResult, httpSent, httpAccepted>>

tcpVars == <<previousUid, tcpReports, tcpFatal, tcpClosed, tcpSent,
             tcpWritten>>

fatalVars == <<destCreated, rebindPeriod, ctxDone, timerElapsed, onceDone, onceLock,
               fatalCloses, fatalCounter, fpc, fcalls, freturned,
               rebindFatal, cancelledFirst, tookCtxDone>>

binderVars == <<bmain, barg, listeners, lst, mgr, connections,
                packetconnections, connfiles, conns, nextUid, ncmds, handed,
                closeCause, stoppedAddrs, lateNewconn, resetDone, closeNamed>>

splitVars == <<splitData, splitAtEOF, splitPc, splitRet>>

sourceVars == <<sentFrames, lineFraming, srcWire, scanBuf, scanStart,
                scanErr, hpc, connEnd, rawQueue, rawDisposed, incomingMsgs,
                ppc, praw, ParsingErrorCounter, decodeFailed, stashed,
                srcFatal, pdone>>

providerVars == <<provBuild, provPc, provParams, provConfdir, provCancel,
                  provOut, provCmds, provDecoded, provUsed>>

confSvcVars == <<csPc, rdPc, confOnce, startedSends, startedCloses,
                 sentAfterClose, confKill, outputClosed, startResult,
                 readLog, confReceived>>

supervisorVars == <<supPc, shutdownDone, supConf, startConf, lastNewConf,
                    confsReceived, confChanClosed, sigChan, sigNotify,
                    sigChanNil, sigArrived, termQueued, reloadsAsked,
                    storeShut, supJournald, ctlReturned, ctlShut,
                    storeShutdown>>

pushVars == <<pushLog>>

intQueueVars == <<iqHead, iqTail, iqDisposed, iqNext, iqUid, iqPc, iqNode,
                  iqPrev, iqAlloc, iqReturned, iqOrder, iqGot, iqHasMissed,
                  iqGetMissed>>

reloadVars == <<rlBuild, rlPc, rlCmd, rlLoads, rlCancel, rlCancelled,
                rlKind, rlUpdated, rlUpdates, wtPc, wtMarshalOk, rlOut>>

vars == <<ringVars, relpVars, svcVars, httpVars, tcpVars, fatalVars,
          binderVars, splitVars, sourceVars, providerVars, confSvcVars,
          supervisorVars, pushVars, intQueueVars, reloadVars>>

nonRingVars == <<relpVars, svcVars, httpVars, tcpVars, fatalVars,
                 binderVars, splitVars, sourceVars, providerVars,
                 confSvcVars, supervisorVars, pushVars, intQueueVars,
                 reloadVars>>

nonRelpVars == <<ringVars, svcVars, httpVars, tcpVars, fatalVars,
                 binderVars, splitVars, sourceVars, providerVars,
                 confSvcVars, supervisorVars, pushVars, intQueueVars,
                 reloadVars>>

nonSvcVars == <<ringVars, relpVars, httpVars, tcpVars, fatalVars,
                binderVars, splitVars, sourceVars, providerVars,
                confSvcVars, supervisorVars, pushVars, intQueueVars,
                reloadVars>>

nonHttpVars == <<ringVars, relpVars, svcVars, tcpVars, fatalVars,
                 binderVars, splitVars, sourceVars, providerVars,
                 confSvcVars, supervisorVars, pushVars, intQueueVars,
                 reloadVars>>

nonTcpVars == <<ringVars, relpVars, svcVars, httpVars, fatalVars,
                binderVars, splitVars, sourceVars, providerVars,
                confSvcVars, supervisorVars, pushVars, intQueueVars,
                reloadVars>>

nonFatalVars == <<ringVars, relpVars, svcVars, httpVars, tcpVars,
                  binderVars, splitVars, sourceVars, providerVars,
                  confSvcVars, supervisorVars, pushVars, intQueueVars,
                  reloadVars>>

nonBinderVars == <<ringVars, relpVars, svcVars, httpVars, tcpVars,
                   fatalVars, splitVars, sourceVars, providerVars,
                   confSvcVars, supervisorVars, pushVars, intQueueVars,
                   reloadVars>>

nonSplitVars == <<ringVars, relpVars, svcVars, httpVars, tcpVars, fatalVars,
                  binderVars, sourceVars, providerVars, confSvcVars,
                  supervisorVars, pushVars, intQueueVars, reloadVars>>

nonSourceVars == <<ringVars, relpVars, svcVars, httpVars, tcpVars,
                   fatalVars, binderVars, splitVars, providerVars,
                   confSvcVars, supervisorVars, pushVars, intQueueVars,
                   reloadVars>>

nonProviderVars == <<ringVars, relpVars, svcVars, httpVars, tcpVars,
                     fatalVars, binderVars, splitVars, sourceVars,
                     confSvcVars, supervisorVars, pushVars, intQueueVars,
                     reloadVars>>

nonConfSvcVars == <<ringVars, relpVars, svcVars, httpVars, tcpVars,
                    fatalVars, binderVars, splitVars, sourceVars,
                    providerVars, supervisorVars, pushVars, intQueueVars,
                    reloadVars>>

nonSupervisorVars == <<ringVars, relpVars, svcVars, httpVars, tcpVars,
                       fatalVars, binderVars, splitVars, sourceVars,
                       providerVars, confSvcVars, pushVars, intQueueVars,
                       reloadVars>>

nonPushVars == <<ringVars, relpVars, svcVars, httpVars, tcpVars, fatalVars,
                 binderVars, splitVars, sourceVars, providerVars,
                 confSvcVars, supervisorVars, intQueueVars, reloadVars>>

nonIntQueueVars == <<ringVars, relpVars, svcVars, httpVars, tcpVars,
                     fatalVars, binderVars, splitVars, sourceVars,
                     providerVars, confSvcVars, supervisorVars, pushVars,
                     reloadVars>>

nonReloadVars == <<ringVars, relpVars, svcVars, httpVars, tcpVars,
                   fatalVars, binderVars, splitVars, sourceVars,
                   providerVars, confSvcVars, supervisorVars, pushVars,
                   intQueueVars>>

(***************************************************************************)
(* RawTCPRing                                                              *)
(***************************************************************************)
RECURSIVE pow2From(_, _)
pow2From(p, n) == IF p >= n THEN p ELSE pow2From(2 * p, n)

\* roundUp(size): the next power of two >= size
roundUp(n) == pow2From(1, n)

\* Cap(): len(rb.nodes)
Cap == roundUp(RingSize)

\* rb.mask = size - 1
mask == Cap - 1

\* pos & rb.mask, for a power-of-two size
Slot(p) == p % (mask + 1)

\* Len(): queue - dequeue
RingLen == queue - dequeue

\* put: "case dif == 0" with dif := seq - pos on uint64
PutReady_Signed(s, p) == s <= p
PutReady(s, p) == s = p

\* Poll: "case dif == 0" with dif := seq - (pos + 1)
GetReady_Early(s, p) == s >= p
GetReady(s, p) == s = p + 1

\* Poll: the position stored when a slot is released, pos + rb.mask + 1
ReleasePos(p) == p + mask + 1

\* Poll: "if atomic.LoadUint64(&rb.disposed) == 1" after a failed attempt
PollSeesDisposed_Never(d) == FALSE
PollSeesDisposed(d) == d = 1

\* put: "if atomic.LoadUint64(&rb.disposed) == 1" at the top of the loop
PutSeesDisposed(d) == d = 1

RingInit0 ==
    /\ queue = 0
    /\ dequeue = 0
    /\ disposed = 0
    /\ nodes = [i \in 0..(Cap - 1) |-> [position |-> i, data |-> NoItem]]
    /\ pc = [p \in Procs |-> "idle"]
    /\ pos = [p \in Procs |-> 0]
    /\ seq = [p \in Procs |-> 0]
    /\ item = [p \in Procs |-> NoItem]
    /\ offer = [p \in Procs |-> FALSE]
    /\ timed = [p \in Procs |-> FALSE]
    /\ nb = [p \in Procs |-> 0]
    /\ res = [p \in Procs |-> "none"]
    /\ ret = [p \in Procs |-> NoItem]
    /\ nputs = 0
    /\ ngets = 0
    /\ enq = <<>>
    /\ got = {}
    /\ blockedAtDispose = {}
    /\ sawFull = [p \in Procs |-> FALSE]
    /\ onDisposed = [p \in Procs |-> FALSE]
    /\ toldDisposed = FALSE

\* history only: sawFull[p] tells whether Len = Cap held in some state of
\* p's current (or, once it returned, last) call
NoteFull(q, d) ==
    sawFull' = [p \in Procs |->
                  IF pc[p] = "idle"
                    THEN IF pc'[p] = "idle" THEN sawFull[p] ELSE q - d = Cap
                    ELSE sawFull[p] \/ (q - d = Cap)]

\* a call returns: the locals are dropped
Return(p, r, data) ==
    /\ pc' = [pc EXCEPT ![p] = "idle"]
    /\ res' = [res EXCEPT ![p] = r]
    /\ ret' = [ret EXCEPT ![p] = data]
    /\ pos' = [pos EXCEPT ![p] = 0]
    /\ seq' = [seq EXCEPT ![p] = 0]
    /\ nb' = [nb EXCEPT ![p] = 0]
    /\ item' = [item EXCEPT ![p] = NoItem]
    /\ offer' = [offer EXCEPT ![p] = FALSE]
    /\ timed' = [timed EXCEPT ![p] = FALSE]

\* Put(item) / Offer(item): pos := atomic.LoadUint64(&rb.queue)
PutCall(p, isOffer) ==
    /\ pc[p] = "idle"
    /\ nputs < MaxPuts
    /\ nputs' = nputs + 1
    /\ pc' = [pc EXCEPT ![p] = "put_check"]
    /\ pos' = [pos EXCEPT ![p] = queue]
    /\ item' = [item EXCEPT ![p] = nputs + 1]
    /\ offer' = [offer EXCEPT ![p] = isOffer]
    /\ res' = [res EXCEPT ![p] = "none"]
    /\ ret' = [ret EXCEPT ![p] = NoItem]
    /\ blockedAtDispose' = blockedAtDispose \ {p}
    /\ onDisposed' = [onDisposed EXCEPT ![p] = (disposed = 1)]
    /\ NoteFull(queue, dequeue)
    /\ UNCHANGED <<queue, dequeue, disposed, nodes, seq, timed, nb, ngets,
                   enq, got, toldDisposed>>
    /\ UNCHANGED nonRingVars

Put(p) == PutCall(p, FALSE)

Offer(p) == PutCall(p, TRUE)

\* put, top of the loop: return ErrDisposed when disposed
PutCheck(p) ==
    /\ pc[p] = "put_check"
    /\ IF PutSeesDisposed(disposed)
         THEN Return(p, "ErrDisposed", NoItem)
         ELSE /\ pc' = [pc EXCEPT ![p] = "put_load"]
              /\ UNCHANGED <<res, ret, pos, seq, nb, item, offer, timed>>
    /\ NoteFull(queue, dequeue)
    /\ UNCHANGED <<queue, dequeue, disposed, nodes, nputs, ngets, enq, got,
                   blockedAtDispose, onDisposed, toldDisposed>>
    /\ UNCHANGED nonRingVars

\* put: n = rb.nodes[pos&rb.mask]; seq := atomic.LoadUint64(&n.position)
PutLoad(p) ==
    /\ pc[p] = "put_load"
    /\ seq' = [seq EXCEPT ![p] = nodes[Slot(pos[p])].position]
    /\ pc' = [pc EXCEPT ![p] = "put_cas"]
    /\ NoteFull(queue, dequeue)
    /\ UNCHANGED <<queue, dequeue, disposed, nodes, pos, item, offer, timed,
                   nb, res, ret, nputs, ngets, enq, got, blockedAtDispose,
                   onDisposed, toldDisposed>>
    /\ UNCHANGED nonRingVars

\* put: after a failed attempt an Offer returns (false, nil), a Put backs
\* off (nb++) and loops
PutFailed(p) ==
    IF offer[p]
      THEN /\ pc' = [pc EXCEPT ![p] = "idle"]
           /\ res' = [res EXCEPT ![p] = "full"]
           /\ ret' = [ret EXCEPT ![p] = NoItem]
           /\ seq' = [seq EXCEPT ![p] = 0]
           /\ nb' = [nb EXCEPT ![p] = 0]
           /\ item' = [item EXCEPT ![p] = NoItem]
           /\ offer' = [offer EXCEPT ![p] = FALSE]
           /\ UNCHANGED timed
      ELSE /\ pc' = [pc EXCEPT ![p] = "put_check"]
           /\ nb' = [nb EXCEPT ![p] = 1]
           /\ seq' = [seq EXCEPT ![p] = 0]
           /\ UNCHANGED <<res, ret, item, offer, timed>>

\* put: the switch on dif
PutSwitch(p) ==
    /\ pc[p] = "put_cas"
    /\ IF PutReady(seq[p], pos[p])
         THEN IF queue = pos[p]
                THEN \* CompareAndSwapUint64(&rb.queue, pos, pos+1) succeeds
                     /\ queue' = queue + 1
                     /\ enq' = Append(enq, item[p])
                     /\ pc' = [pc EXCEPT ![p] = "put_store"]
                     /\ UNCHANGED <<pos, seq, nb, res, ret, item, offer,
                                    timed>>
                ELSE \* the CAS fails
                     /\ PutFailed(p)
                     /\ pos' = IF offer[p] THEN [pos EXCEPT ![p] = 0] ELSE pos
                     /\ UNCHANGED <<queue, enq>>
         ELSE \* default: pos = atomic.LoadUint64(&rb.queue)
              /\ PutFailed(p)
              /\ pos' = [pos EXCEPT ![p] = IF offer[p] THEN 0 ELSE queue]
              /\ UNCHANGED <<queue, enq>>
    /\ NoteFull(queue', dequeue)
    /\ UNCHANGED <<dequeue, disposed, nodes, nputs, ngets, got,
                   blockedAtDispose, onDisposed, toldDisposed>>
    /\ UNCHANGED nonRingVars

\* put: n.data = item
PutStore(p) ==
    /\ pc[p] = "put_store"
    /\ nodes' = [nodes EXCEPT ![Slot(pos[p])].data = item[p]]
    /\ pc' = [pc EXCEPT ![p] = "put_pub"]
    /\ NoteFull(queue, dequeue)
    /\ UNCHANGED <<queue, dequeue, disposed, pos, seq, item, offer, timed,
                   nb, res, ret, nputs, ngets, enq, got, blockedAtDispose,
                   onDisposed, toldDisposed>>
    /\ UNCHANGED nonRingVars

\* put: atomic.StoreUint64(&n.position, pos+1); return true, nil
PutPublish(p) ==
    /\ pc[p] = "put_pub"
    /\ nodes' = [nodes EXCEPT ![Slot(pos[p])].position = pos[p] + 1]
    /\ Return(p, "ok", NoItem)
    /\ NoteFull(queue, dequeue)
    /\ UNCHANGED <<queue, dequeue, disposed, nputs, ngets, enq, got,
                   blockedAtDispose, onDisposed, toldDisposed>>
    /\ UNCHANGED nonRingVars

\* Get() = Poll(0); Poll(timeout): pos = atomic.LoadUint64(&rb.dequeue)
PollCall(p, withTimeout) ==
    /\ pc[p] = "idle"
    /\ ngets < MaxGets
    /\ ngets' = ngets + 1
    /\ pc' = [pc EXCEPT ![p] = "get_load"]
    /\ pos' = [pos EXCEPT ![p] = dequeue]
    /\ timed' = [timed EXCEPT ![p] = withTimeout]
    /\ res' = [res EXCEPT ![p] = "none"]
    /\ ret' = [ret EXCEPT ![p] = NoItem]
    /\ blockedAtDispose' = blockedAtDispose \ {p}
    /\ onDisposed' = [onDisposed EXCEPT ![p] = (disposed = 1)]
    /\ NoteFull(queue, dequeue)
    /\ UNCHANGED <<queue, dequeue, disposed, nodes, seq, item, offer, nb,
                   nputs, enq, got, toldDisposed>>
    /\ UNCHANGED nonRingVars

Get(p) == PollCall(p, FALSE)

Poll(p) == PollCall(p, TRUE)

\* Poll: n = rb.nodes[pos&rb.mask]; seq := atomic.LoadUint64(&n.position)
PollLoad(p) ==
    /\ pc[p] = "get_load"
    /\ seq' = [seq EXCEPT ![p] = nodes[Slot(pos[p])].position]
    /\ pc' = [pc EXCEPT ![p] = "get_cas"]
    /\ NoteFull(queue, dequeue)
    /\ UNCHANGED <<queue, dequeue, disposed, nodes, pos, item, offer, timed,
                   nb, res, ret, nputs, ngets, enq, got, blockedAtDispose,
                   onDisposed, toldDisposed>>
    /\ UNCHANGED nonRingVars

\* Poll: the switch on dif
PollSwitch(p) ==
    /\ pc[p] = "get_cas"
    /\ IF GetReady(seq[p], pos[p])
         THEN IF dequeue = pos[p]
                THEN \* CompareAndSwapUint64(&rb.dequeue, pos, pos+1) succeeds
                     /\ dequeue' = dequeue + 1
                     /\ pc' = [pc EXCEPT ![p] = "get_read"]
                     /\ UNCHANGED pos
                ELSE /\ pc' = [pc EXCEPT ![p] = "get_check"]
                     /\ UNCHANGED <<dequeue, pos>>
         ELSE \* default: pos = atomic.LoadUint64(&rb.dequeue)
              /\ pos' = [pos EXCEPT ![p] = dequeue]
              /\ pc' = [pc EXCEPT ![p] = "get_check"]
              /\ UNCHANGED dequeue
    /\ seq' = [seq EXCEPT ![p] = 0]
    /\ NoteFull(queue, dequeue')
    /\ UNCHANGED <<queue, disposed, nodes, item, offer, timed, nb, res, ret,
                   nputs, ngets, enq, got, blockedAtDispose,
                   onDisposed, toldDisposed>>
    /\ UNCHANGED nonRingVars

\* Poll, after a failed attempt: the timeout has elapsed (only when
\* timeout > 0): return nil, ErrTimeout
PollTimeout(p) ==
    /\ pc[p] = "get_check"
    /\ timed[p]
    /\ Return(p, "ErrTimeout", NoItem)
    /\ NoteFull(queue, dequeue)
    /\ UNCHANGED <<queue, dequeue, disposed, nodes, nputs, ngets, enq, got,
                   blockedAtDispose, onDisposed, toldDisposed>>
    /\ UNCHANGED nonRingVars

\* Poll, after a failed attempt and no timeout: return ErrDisposed when
\* disposed, else back off (nb++) and loop
PollCheck(p) ==
    /\ pc[p] = "get_check"
    /\ IF PollSeesDisposed(disposed)
         THEN Return(p, "ErrDisposed", NoItem)
         ELSE /\ pc' = [pc EXCEPT ![p] = "get_load"]
              /\ nb' = [nb EXCEPT ![p] = 1]
              /\ UNCHANGED <<res, ret, pos, seq, item, offer, timed>>
    /\ toldDisposed' = (toldDisposed \/ PollSeesDisposed(disposed))
    /\ NoteFull(queue, dequeue)
    /\ UNCHANGED <<queue, dequeue, disposed, nodes, nputs, ngets, enq, got,
                   blockedAtDispose, onDisposed>>
    /\ UNCHANGED nonRingVars

\* Poll: data := n.data; n.data = nil
PollRead(p) ==
    /\ pc[p] = "get_read"
    /\ item' = [item EXCEPT ![p] = nodes[Slot(pos[p])].data]
    /\ nodes' = [nodes EXCEPT ![Slot(pos[p])].data = NoItem]
    /\ got' = got \cup {<<pos[p], nodes[Slot(pos[p])].data>>}
    /\ pc' = [pc EXCEPT ![p] = "get_pub"]
    /\ NoteFull(queue, dequeue)
    /\ UNCHANGED <<queue, dequeue, disposed, pos, seq, offer, timed, nb, res,
                   ret, nputs, ngets, enq, blockedAtDispose, onDisposed, toldDisposed>>
    /\ UNCHANGED nonRingVars

\* Poll: atomic.StoreUint64(&n.position, pos+rb.mask+1); return data, nil
PollPublish(p) ==
    /\ pc[p] = "get_pub"
    /\ nodes' = [nodes EXCEPT ![Slot(pos[p])].position = ReleasePos(pos[p])]
    /\ Return(p, "ok", item[p])
    /\ NoteFull(queue, dequeue)
    /\ UNCHANGED <<queue, dequeue, disposed, nputs, ngets, enq, got,
                   blockedAtDispose, onDisposed, toldDisposed>>
    /\ UNCHANGED nonRingVars

\* history only: a Put that has retried while the ring is full, a Get
\* (Poll without timeout) that has retried while the ring is empty
BlockedPut(p) ==
    /\ pc[p] \in {"put_check", "put_load", "put_cas"}
    /\ ~offer[p] /\ nb[p] = 1 /\ queue - dequeue = Cap

BlockedGet(p) ==
    /\ pc[p] \in {"get_load", "get_cas", "get_check"}
    /\ ~timed[p] /\ nb[p] = 1 /\ queue = dequeue

\* Dispose(): atomic.CompareAndSwapUint64(&rb.disposed, 0, 1)
Dispose ==
    /\ disposed' = 1
    /\ blockedAtDispose' =
         IF disposed = 0
           THEN {p \in Procs : BlockedPut(p) \/ BlockedGet(p)}
           ELSE blockedAtDispose
    /\ UNCHANGED <<queue, dequeue, nodes, pc, pos, seq, item, offer, timed,
                   nb, res, ret, nputs, ngets, enq, got, sawFull, onDisposed, toldDisposed>>
    /\ UNCHANGED nonRingVars

\* the steps of one goroutine inside a call
RingStep(p) ==
    \/ PutCheck(p) \/ PutLoad(p) \/ PutSwitch(p) \/ PutStore(p)
    \/ PutPublish(p)
    \/ PollLoad(p) \/ PollSwitch(p) \/ PollTimeout(p) \/ PollCheck(p)
    \/ PollRead(p) \/ PollPublish(p)

RingCall(p) == Put(p) \/ Offer(p) \/ Get(p) \/ Poll(p)

RingNext ==
    \/ \E p \in Procs : RingCall(p)
    \/ \E p \in Procs : RingStep(p)
    \/ Dispose

(***************************************************************************)
(* Direct RELP: one connection, its forwarder queues and handleResponses   *)
(***************************************************************************)
\* width of the model: the client's transaction numbers are 1..MaxTxnr
Txnrs == 1..MaxTxnr

\* the -1 returned by GetSucc / GetFail / NextToCommit for "nothing"
NoTxnr == -1

RelpInit0 ==
    /\ fwdSucc = <<>>
    /\ fwdFail = <<>>
    /\ fwdComm = <<>>
    /\ fwdRemoved = FALSE
    /\ hrpc = "wait"
    /\ successes = [t \in Txnrs |-> "absent"]
    /\ failures = [t \in Txnrs |-> "absent"]
    /\ currentTxnr = NoTxnr
    /\ conn = "ok"
    /\ written = <<>>
    /\ received = <<>>
    /\ nverdicts = 0
    /\ verdicted = {}
    /\ early = {}

Range(q) == {q[i] : i \in 1..Len(q)}

LastReceived == IF received = <<>> THEN 0 ELSE received[Len(received)]

\* scan: a syslog frame with txnr t arrives; forwarder.Received(connID, t)
\* appends t to the connection's next_to_commit queue.  The client numbers
\* its frames 1, 2, 3, ...
Received(t) ==
    /\ ~fwdRemoved
    /\ conn # "gone"
    /\ t = LastReceived + 1
    /\ fwdComm' = Append(fwdComm, t)
    /\ received' = Append(received, t)
    /\ UNCHANGED <<fwdSucc, fwdFail, fwdRemoved, hrpc, successes, failures,
                   currentTxnr, conn, written, nverdicts, verdicted, early>>
    /\ UNCHANGED nonRelpVars

\* history only
NoteVerdict(t) ==
    /\ nverdicts' = nverdicts + 1
    /\ verdicted' = verdicted \cup {t}
    /\ early' = IF t \notin verdicted
                     /\ \E u \in Range(received) : u < t /\ u \notin verdicted
                  THEN early \cup {t} ELSE early

\* forwarder.ForwardSucc(connID, t): called by handleKafkaResponses for a
\* message of frame t
ForwardSucc(t) ==
    /\ ~fwdRemoved
    /\ t \in Range(received)
    /\ nverdicts < MaxVerdicts
    /\ fwdSucc' = Append(fwdSucc, t)
    /\ NoteVerdict(t)
    /\ UNCHANGED <<fwdFail, fwdComm, fwdRemoved, hrpc, successes, failures,
                   currentTxnr, conn, written, received>>
    /\ UNCHANGED nonRelpVars

\* forwarder.ForwardFail(connID, t): called by parseOne, pushOne and
\* handleKafkaResponses for a message of frame t
ForwardFail(t) ==
    /\ ~fwdRemoved
    /\ t \in Range(received)
    /\ nverdicts < MaxVerdicts
    /\ fwdFail' = Append(fwdFail, t)
    /\ NoteVerdict(t)
    /\ UNCHANGED <<fwdSucc, fwdComm, fwdRemoved, hrpc, successes, failures,
                   currentTxnr, conn, written, received>>
    /\ UNCHANGED nonRelpVars

\* forwarder.RemoveConn(connID) / RemoveAll(): the connection's queues are
\* disposed and forgotten
RemoveConn ==
    /\ ~fwdRemoved
    /\ fwdRemoved' = TRUE
    /\ UNCHANGED <<fwdSucc, fwdFail, fwdComm, hrpc, successes, failures,
                   currentTxnr, conn, written, received, nverdicts, verdicted, early>>
    /\ UNCHANGED nonRelpVars

\* the client connection: writes time out while it is slow, fail for good
\* once it is gone
ConnSlow ==
    /\ conn = "ok"
    /\ conn' = "slow"
    /\ UNCHANGED <<fwdSucc, fwdFail, fwdComm, fwdRemoved, hrpc, successes,
                   failures, currentTxnr, written, received, nverdicts, verdicted, early>>
    /\ UNCHANGED nonRelpVars

ConnRecovers ==
    /\ conn = "slow"
    /\ conn' = "ok"
    /\ UNCHANGED <<fwdSucc, fwdFail, fwdComm, fwdRemoved, hrpc, successes,
                   failures, currentTxnr, written, received, nverdicts, verdicted, early>>
    /\ UNCHANGED nonRelpVars

ConnGone ==
    /\ conn # "gone"
    /\ conn' = "gone"
    /\ UNCHANGED <<fwdSucc, fwdFail, fwdComm, fwdRemoved, hrpc, successes,
                   failures, currentTxnr, written, received, nverdicts, verdicted, early>>
    /\ UNCHANGED nonRelpVars

\* forwarder.GetSucc / GetFail: the head of the queue, -1 when it is empty
\* or the connection is removed
QueueHead(q) == IF fwdRemoved \/ q = <<>> THEN NoTxnr ELSE Head(q)

QueueRest(q) == IF fwdRemoved \/ q = <<>> THEN q ELSE Tail(q)

\* forwarder.NextToCommit(connID)
NextToCommit == QueueHead(fwdComm)

\* handleResponses: "_, ok1 = successes[t]; _, ok2 = failures[t];
\* if !ok1 && !ok2": the first verdict recorded for a txnr wins
NewVerdict_Always(t) == TRUE
NewVerdict(t) == successes[t] = "absent" /\ failures[t] = "absent"

\* handleResponses, Cooking: the txnr answered is next, the head of
\* next_to_commit, never the verdict just read
AnswerTxnr_Current(next, current) == IF current # NoTxnr THEN current ELSE next
AnswerTxnr(next, current) == next

\* handleResponses, Cooking: "if successes[next]" / "else if failures[next]"
SuccessReady(t) == successes[t] = "true"

FailureReady_Forgotten(t) == FALSE
FailureReady(t) == failures[t] = "true"

\* handleResponses: for s.forwarder.Wait(connID)
HRWait ==
    /\ hrpc = "wait"
    /\ IF fwdRemoved
         THEN hrpc' = "done"
         ELSE /\ fwdSucc # <<>> \/ fwdFail # <<>>
              /\ hrpc' = "getsucc"
    /\ UNCHANGED <<fwdSucc, fwdFail, fwdComm, fwdRemoved, successes, failures,
                   currentTxnr, conn, written, received, nverdicts, verdicted, early>>
    /\ UNCHANGED nonRelpVars

\* handleResponses: currentTxnr = s.forwarder.GetSucc(connID) ...
HRGetSucc ==
    /\ hrpc = "getsucc"
    /\ currentTxnr' = QueueHead(fwdSucc)
    /\ fwdSucc' = QueueRest(fwdSucc)
    /\ successes' =
         IF QueueHead(fwdSucc) # NoTxnr /\ NewVerdict(QueueHead(fwdSucc))
           THEN [successes EXCEPT ![QueueHead(fwdSucc)] = "true"]
           ELSE successes
    /\ hrpc' = "getfail"
    /\ UNCHANGED <<fwdFail, fwdComm, fwdRemoved, failures, conn, written,
                   received, nverdicts, verdicted, early>>
    /\ UNCHANGED nonRelpVars

\* handleResponses: currentTxnr = s.forwarder.GetFail(connID) ...
HRGetFail ==
    /\ hrpc = "getfail"
    /\ currentTxnr' = QueueHead(fwdFail)
    /\ fwdFail' = QueueRest(fwdFail)
    /\ failures' =
         IF QueueHead(fwdFail) # NoTxnr /\ NewVerdict(QueueHead(fwdFail))
           THEN [failures EXCEPT ![QueueHead(fwdFail)] = "true"]
           ELSE failures
    /\ hrpc' = "cook"
    /\ UNCHANGED <<fwdSucc, fwdComm, fwdRemoved, successes, conn, written,
                   received, nverdicts, verdicted, early>>
    /\ UNCHANGED nonRelpVars

\* handleResponses, Cooking: write "<txnr> rsp 6 <code> ..." to the client.
\* err == nil: the frame is written and the verdict is marked answered;
\* timeout: nothing changes and Cooking loops; EOF or another error: return.
HRWrite(t, code) ==
    /\ conn = "ok" =>
         /\ written' = Append(written, [txnr |-> t, code |-> code])
         /\ successes' = IF code = 200 THEN [successes EXCEPT ![t] = "false"]
                         ELSE successes
         /\ failures' = IF code = 500 THEN [failures EXCEPT ![t] = "false"]
                        ELSE failures
         /\ hrpc' = "commit"
    /\ conn = "slow" => UNCHANGED <<written, successes, failures, hrpc>>
    /\ conn = "gone" =>
         /\ hrpc' = "done"
         /\ UNCHANGED <<written, successes, failures>>

\* handleResponses, Cooking ends ("break Cooking"): back to Wait; the
\* value left in currentTxnr is overwritten before it is read again
BreakCooking ==
    /\ hrpc' = "wait"
    /\ currentTxnr' = NoTxnr
    /\ UNCHANGED <<written, successes, failures>>

\* handleResponses, one turn of the Cooking loop
HRCook ==
    /\ hrpc = "cook"
    /\ IF NextToCommit = NoTxnr
         THEN BreakCooking
         ELSE IF SuccessReady(AnswerTxnr(NextToCommit, currentTxnr))
           THEN /\ HRWrite(AnswerTxnr(NextToCommit, currentTxnr), 200)
                /\ UNCHANGED currentTxnr
           ELSE IF FailureReady(AnswerTxnr(NextToCommit, currentTxnr))
             THEN /\ HRWrite(AnswerTxnr(NextToCommit, currentTxnr), 500)
                  /\ UNCHANGED currentTxnr
             ELSE BreakCooking
    /\ UNCHANGED <<fwdSucc, fwdFail, fwdComm, fwdRemoved, conn, received,
                   nverdicts, verdicted, early>>
    /\ UNCHANGED nonRelpVars

\* handleResponses: "if err == nil { s.forwarder.Commit(connID) }"
HRCommit ==
    /\ hrpc = "commit"
    /\ fwdComm' = QueueRest(fwdComm)
    /\ hrpc' = "cook"
    /\ UNCHANGED <<fwdSucc, fwdFail, fwdRemoved, successes, failures,
                   currentTxnr, conn, written, received, nverdicts, verdicted, early>>
    /\ UNCHANGED nonRelpVars

HRStep == HRWait \/ HRGetSucc \/ HRGetFail \/ HRCook \/ HRCommit

RelpNext ==
    \/ \E t \in Txnrs : Received(t)
    \/ \E t \in Txnrs : ForwardSucc(t)
    \/ \E t \in Txnrs : ForwardFail(t)
    \/ RemoveConn
    \/ ConnSlow
    \/ ConnRecovers
    \/ ConnGone
    \/ HRStep

(***************************************************************************)
(* The direct-RELP service: status machine, doStop and its goroutines      *)
(* (services/network/directrelp.go)                                        *)
(***************************************************************************)
\* goroutines that take part in starting and stopping the service: the
\* status loop of DirectRelpService.Start, handleKafkaResponses,
\* push2kafka and the caller of DirectRelpService.Shutdown
SvcProcs == {"wrapper", "kresp", "p2k", "ext"}

\* capacity of StatusChan
StatusChanCap == 10

SvcInit0 ==
    /\ status = "Stopped"
    /\ StatusChan = <<"Stopped">>
    /\ chanClosed = FALSE
    /\ statusLock = "none"
    /\ wg = 0
    /\ parsewg = 0
    /\ listening = FALSE
    /\ rawQDisposed = FALSE
    /\ parsedDisposed = FALSE
    /\ producerOpen = FALSE
    /\ connsRemoved = FALSE
    /\ spc = [g \in SvcProcs |->
                CASE g = "wrapper" -> "recv"
                  [] g = "ext" -> "idle"
                  [] OTHER -> "off"]
    /\ stopKind = [g \in SvcProcs |-> "none"]
    /\ timers = 0
    /\ fatalErrorChan = "open"
    /\ fatalWhileStarted = FALSE

\* "s.StatusChan <- st" (and close(s.StatusChan) after FinalStopped)
Publish(st) ==
    /\ Len(StatusChan) < StatusChanCap
    /\ status' = st
    /\ StatusChan' = Append(StatusChan, st)
    /\ chanClosed' = (chanClosed \/ st = "FinalStopped")

\* sync.WaitGroup: the Done that brings the counter to zero releases Wait
ReleaseWait(count, label, next, f) ==
    [g \in SvcProcs |-> IF count = 0 /\ f[g] = label THEN next ELSE f[g]]

\* status loop: "state := <-s.impl.StatusChan" and the switch on it
WrapperRecv ==
    /\ spc["wrapper"] = "recv"
    /\ StatusChan # <<>>
    /\ StatusChan' = Tail(StatusChan)
    /\ spc' = [spc EXCEPT !["wrapper"] =
                  CASE Head(StatusChan) = "FinalStopped" -> "exit"
                    [] Head(StatusChan) = "Stopped" -> "start"
                    [] OTHER -> "recv"]
    /\ timers' = IF Head(StatusChan) = "Waiting" THEN timers + 1 ELSE timers
    /\ UNCHANGED <<status, chanClosed, statusLock, wg, parsewg, listening,
                   rawQDisposed, parsedDisposed, producerOpen, connsRemoved,
                   stopKind, fatalErrorChan, fatalWhileStarted>>
    /\ UNCHANGED nonSvcVars

\* DirectRelpServiceImpl.Start refused: wrong status, or no Kafka producer
StartFails ==
    /\ spc["wrapper"] = "start"
    /\ statusLock = "none"
    /\ spc' = [spc EXCEPT !["wrapper"] = "start_failed"]
    /\ UNCHANGED <<status, StatusChan, chanClosed, statusLock, wg, parsewg,
                   listening, rawQDisposed, parsedDisposed, producerOpen,
                   connsRemoved, stopKind, timers, fatalErrorChan,
                   fatalWhileStarted>>
    /\ UNCHANGED nonSvcVars

\* DirectRelpServiceImpl.Start with no listener: returns (infos, nil)
StartNoListener ==
    /\ spc["wrapper"] = "start"
    /\ statusLock = "none"
    /\ status \in {"Stopped", "Waiting"}
    /\ spc' = [spc EXCEPT !["wrapper"] = "report"]
    /\ UNCHANGED <<status, StatusChan, chanClosed, statusLock, wg, parsewg,
                   listening, rawQDisposed, parsedDisposed, producerOpen,
                   connsRemoved, stopKind, timers, fatalErrorChan,
                   fatalWhileStarted>>
    /\ UNCHANGED nonSvcVars

\* DirectRelpServiceImpl.Start succeeding: queues created, push2kafka,
\* handleKafkaResponses and the parsers launched, Started published
StartOk ==
    /\ spc["wrapper"] = "start"
    /\ statusLock = "none"
    /\ status \in {"Stopped", "Waiting"}
    /\ Publish("Started")
    /\ listening' = TRUE
    /\ producerOpen' = TRUE
    /\ rawQDisposed' = FALSE
    /\ parsedDisposed' = FALSE
    /\ wg' = wg + 2
    /\ parsewg' = parsewg + NumParsers
    /\ spc' = [spc EXCEPT !["wrapper"] = "report", !["p2k"] = "run",
                          !["kresp"] = "run"]
    /\ UNCHANGED <<statusLock, connsRemoved, stopKind, timers,
                   fatalErrorChan, fatalWhileStarted>>
    /\ UNCHANGED nonSvcVars

\* status loop after Start: Report succeeded; after a failed Start the
\* loop then calls StopAndWait
ReportOk ==
    /\ spc["wrapper"] \in {"report", "start_failed"}
    /\ spc' = [spc EXCEPT !["wrapper"] =
                  IF spc["wrapper"] = "report" THEN "recv" ELSE "stop_lock"]
    /\ stopKind' = [stopKind EXCEPT !["wrapper"] =
                  IF spc["wrapper"] = "report" THEN "none" ELSE "wait"]
    /\ UNCHANGED <<status, StatusChan, chanClosed, statusLock, wg, parsewg,
                   listening, rawQDisposed, parsedDisposed, producerOpen,
                   connsRemoved, timers, fatalErrorChan, fatalWhileStarted>>
    /\ UNCHANGED nonSvcVars

\* status loop after Start: Report failed, s.dofatal()
ReportFails ==
    /\ spc["wrapper"] \in {"report", "start_failed"}
    /\ spc' = [spc EXCEPT !["wrapper"] = "recv"]
    /\ fatalErrorChan' = "closed"
    /\ UNCHANGED <<status, StatusChan, chanClosed, statusLock, wg, parsewg,
                   listening, rawQDisposed, parsedDisposed, producerOpen,
                   connsRemoved, stopKind, timers, fatalWhileStarted>>
    /\ UNCHANGED nonSvcVars

\* goroutines that may run doStop
Stoppers == {"wrapper", "kresp", "ext"}

\* where a goroutine continues once Stop/StopAndWait/FinalStop returned:
\* the status loop receives again, handleKafkaResponses returns (it has no
\* s.wg.Done()), Shutdown goes on to wait for the status loop
AfterStop(g) ==
    CASE g = "wrapper" -> "recv"
      [] g = "kresp" -> "exited"
      [] OTHER -> "join"

\* the status doStop(final, wait) publishes
StopStatus(kind) ==
    CASE kind = "final" -> "FinalStopped"
      [] kind = "wait" -> "Waiting"
      [] OTHER -> "Stopped"

\* Stop / FinalStop / StopAndWait: s.LockStatus()
StopLock(g) ==
    /\ spc[g] = "stop_lock"
    /\ statusLock = "none"
    /\ statusLock' = g
    /\ spc' = [spc EXCEPT ![g] = "stop_enter"]
    /\ UNCHANGED <<status, StatusChan, chanClosed, wg, parsewg, listening,
                   rawQDisposed, parsedDisposed, producerOpen, connsRemoved,
                   stopKind, timers, fatalErrorChan, fatalWhileStarted>>
    /\ UNCHANGED nonSvcVars

\* doStop on a service that is not Started: FinalStop publishes
\* FinalStopped unless it is the status already, StopAndWait publishes
\* Waiting when the status is Stopped, every other call just returns
EarlyPublishes_Always(kind, st) == kind \in {"final", "wait"}
EarlyPublishes(kind, st) ==
    \/ kind = "final" /\ st # "FinalStopped"
    \/ kind = "wait" /\ st = "Stopped"

\* doStop: the two early returns, else resetTCPListeners
DoStopEnter(g) ==
    /\ spc[g] = "stop_enter"
    /\ IF status \in {"Waiting", "Stopped", "FinalStopped"}
         THEN /\ spc' = [spc EXCEPT ![g] =
                   IF EarlyPublishes(stopKind[g], status)
                     THEN "stop_publish" ELSE "stop_unlock"]
              /\ UNCHANGED listening
         ELSE /\ spc' = [spc EXCEPT ![g] = "stop_rawq"]
              /\ listening' = FALSE
    /\ UNCHANGED <<status, StatusChan, chanClosed, statusLock, wg, parsewg,
                   rawQDisposed, parsedDisposed, producerOpen, connsRemoved,
                   stopKind, timers, fatalErrorChan, fatalWhileStarted>>
    /\ UNCHANGED nonSvcVars

\* doStop: s.rawQ.Dispose(), then s.parsewg.Wait()
DoStopDisposeRaw(g) ==
    /\ spc[g] = "stop_rawq"
    /\ rawQDisposed' = TRUE
    /\ spc' = [spc EXCEPT ![g] =
                  IF parsewg = 0 THEN "stop_parsed" ELSE "stop_parsewait"]
    /\ UNCHANGED <<status, StatusChan, chanClosed, statusLock, wg, parsewg,
                   listening, parsedDisposed, producerOpen, connsRemoved,
                   stopKind, timers, fatalErrorChan, fatalWhileStarted>>
    /\ UNCHANGED nonSvcVars

\* doStop: s.parsedMessagesQueue.Dispose()
DoStopDisposeParsed(g) ==
    /\ spc[g] = "stop_parsed"
    /\ parsedDisposed' = TRUE
    /\ spc' = [spc EXCEPT ![g] = "stop_remove"]
    /\ UNCHANGED <<status, StatusChan, chanClosed, statusLock, wg, parsewg,
                   listening, rawQDisposed, producerOpen, connsRemoved,
                   stopKind, timers, fatalErrorChan, fatalWhileStarted>>
    /\ UNCHANGED nonSvcVars

\* doStop: s.forwarder.RemoveAll(), then s.wg.Wait()
DoStopRemoveAll(g) ==
    /\ spc[g] = "stop_remove"
    /\ connsRemoved' = TRUE
    /\ spc' = [spc EXCEPT ![g] =
                  IF wg = 0 THEN "stop_publish" ELSE "stop_wgwait"]
    /\ UNCHANGED <<status, StatusChan, chanClosed, statusLock, wg, parsewg,
                   listening, rawQDisposed, parsedDisposed, producerOpen,
                   stopKind, timers, fatalErrorChan, fatalWhileStarted>>
    /\ UNCHANGED nonSvcVars

\* doStop: "s.status = ...; s.StatusChan <- ..."
DoStopPublish(g) ==
    /\ spc[g] = "stop_publish"
    /\ Publish(StopStatus(stopKind[g]))
    /\ spc' = [spc EXCEPT ![g] = "stop_unlock"]
    /\ UNCHANGED <<statusLock, wg, parsewg, listening, rawQDisposed,
                   parsedDisposed, producerOpen, connsRemoved, stopKind,
                   timers, fatalErrorChan, fatalWhileStarted>>
    /\ UNCHANGED nonSvcVars

\* Stop / FinalStop / StopAndWait: s.UnlockStatus() and return
StopUnlock(g) ==
    /\ spc[g] = "stop_unlock"
    /\ statusLock' = "none"
    /\ spc' = [spc EXCEPT ![g] = AfterStop(g)]
    /\ stopKind' = [stopKind EXCEPT ![g] = "none"]
    /\ UNCHANGED <<status, StatusChan, chanClosed, wg, parsewg, listening,
                   rawQDisposed, parsedDisposed, producerOpen, connsRemoved,
                   timers, fatalErrorChan, fatalWhileStarted>>
    /\ UNCHANGED nonSvcVars

\* handleKafkaResponses: an error with a fatal Kafka error is received;
\* "if fatal { s.StopAndWait(); return }"
KafkaFatal ==
    /\ spc["kresp"] = "run"
    /\ producerOpen
    /\ spc' = [spc EXCEPT !["kresp"] = "stop_lock"]
    /\ stopKind' = [stopKind EXCEPT !["kresp"] = "wait"]
    /\ fatalWhileStarted' = (fatalWhileStarted \/ status = "Started")
    /\ UNCHANGED <<status, StatusChan, chanClosed, statusLock, wg, parsewg,
                   listening, rawQDisposed, parsedDisposed, producerOpen,
                   connsRemoved, timers, fatalErrorChan>>
    /\ UNCHANGED nonSvcVars

\* handleKafkaResponses: both producer channels are closed, return
KafkaChannelsClosed ==
    /\ spc["kresp"] = "run"
    /\ ~producerOpen
    /\ spc' = [spc EXCEPT !["kresp"] = "exited"]
    /\ UNCHANGED <<status, StatusChan, chanClosed, statusLock, wg, parsewg,
                   listening, rawQDisposed, parsedDisposed, producerOpen,
                   connsRemoved, stopKind, timers, fatalErrorChan,
                   fatalWhileStarted>>
    /\ UNCHANGED nonSvcVars

\* push2kafka: parsedMessagesQueue.Wait returns false; the deferred
\* s.producer.AsyncClose() and s.wg.Done() run
Push2KafkaExit ==
    /\ spc["p2k"] = "run"
    /\ parsedDisposed
    /\ producerOpen' = FALSE
    /\ wg' = wg - 1
    /\ spc' = ReleaseWait(wg - 1, "stop_wgwait", "stop_publish",
                          [spc EXCEPT !["p2k"] = "exited"])
    /\ UNCHANGED <<status, StatusChan, chanClosed, statusLock, parsewg,
                   listening, rawQDisposed, parsedDisposed, connsRemoved,
                   stopKind, timers, fatalErrorChan, fatalWhileStarted>>
    /\ UNCHANGED nonSvcVars

\* parse: s.rawQ.Get() fails on the disposed ring; deferred parsewg.Done()
ParserExit ==
    /\ parsewg > 0
    /\ rawQDisposed
    /\ parsewg' = parsewg - 1
    /\ spc' = ReleaseWait(parsewg - 1, "stop_parsewait", "stop_parsed", spc)
    /\ UNCHANGED <<status, StatusChan, chanClosed, statusLock, wg,
                   listening, rawQDisposed, parsedDisposed, producerOpen,
                   connsRemoved, stopKind, timers, fatalErrorChan,
                   fatalWhileStarted>>
    /\ UNCHANGED nonSvcVars

\* the goroutine launched on Waiting: after its sleep, EndWait
EndWait ==
    /\ timers > 0
    /\ statusLock = "none"
    /\ timers' = timers - 1
    /\ IF status = "Waiting"
         THEN Publish("Stopped")
         ELSE UNCHANGED <<status, StatusChan, chanClosed>>
    /\ UNCHANGED <<statusLock, wg, parsewg, listening, rawQDisposed,
                   parsedDisposed, producerOpen, connsRemoved, spc,
                   stopKind, fatalErrorChan, fatalWhileStarted>>
    /\ UNCHANGED nonSvcVars

\* DirectRelpService.Shutdown / Stop: s.impl.FinalStop()
Shutdown ==
    /\ spc["ext"] = "idle"
    /\ spc' = [spc EXCEPT !["ext"] = "stop_lock"]
    /\ stopKind' = [stopKind EXCEPT !["ext"] = "final"]
    /\ UNCHANGED <<status, StatusChan, chanClosed, statusLock, wg, parsewg,
                   listening, rawQDisposed, parsedDisposed, producerOpen,
                   connsRemoved, timers, fatalErrorChan, fatalWhileStarted>>
    /\ UNCHANGED nonSvcVars

\* DirectRelpService.Stop: s.wg.Wait() returns once the status loop ended
ShutdownJoin ==
    /\ spc["ext"] = "join"
    /\ spc["wrapper"] = "exit"
    /\ spc' = [spc EXCEPT !["ext"] = "returned"]
    /\ UNCHANGED <<status, StatusChan, chanClosed, statusLock, wg, parsewg,
                   listening, rawQDisposed, parsedDisposed, producerOpen,
                   connsRemoved, stopKind, timers, fatalErrorChan,
                   fatalWhileStarted>>
    /\ UNCHANGED nonSvcVars

\* steps of the service's own goroutines
DoStop(g) ==
    \/ StopLock(g) \/ DoStopEnter(g) \/ DoStopDisposeRaw(g)
    \/ DoStopDisposeParsed(g) \/ DoStopRemoveAll(g) \/ DoStopPublish(g)
    \/ StopUnlock(g)

SvcStep ==
    \/ WrapperRecv \/ ReportOk
    \/ \E g \in Stoppers : DoStop(g)
    \/ KafkaChannelsClosed \/ Push2KafkaExit \/ ParserExit \/ EndWait
    \/ ShutdownJoin

\* outcomes decided by the environment: whether Start finds listeners and a
\* producer, whether Report works, a fatal Kafka error, a Shutdown call
SvcEnv ==
    \/ StartFails \/ StartNoListener \/ StartOk \/ ReportFails
    \/ KafkaFatal \/ Shutdown

SvcNext == SvcStep \/ SvcEnv

(***************************************************************************)
(* Destinations: outcome callbacks and the fatal sentinel                  *)
(* (store/dests/base.go)                                                   *)
(***************************************************************************)
\* utils.ZeroUid
ZeroUid == 0

NoReports(uids) == [u \in uids |-> [ack |-> 0, nack |-> 0, permerr |-> 0]]

\* base.ack / base.nack / base.permerr: one more report of that kind
Reported(reports, uid, kind) ==
    [reports EXCEPT ![uid][kind] = reports[uid][kind] + 1]

\* baseDestination.dofatal: base.once.Do(close(base.fatal)); the value is
\* the number of times the fatal channel has been closed
DoFatal(closes) == IF closes = 0 THEN 1 ELSE closes

(***************************************************************************)
(* The HTTP destination (store/dests, HTTPDestination)                     *)
(***************************************************************************)
HttpUids == 1..HttpMsgs

\* the dosend goroutines (config.MaxIdleConnsPerHost of them)
HttpSenders == 1..HttpWorkers

\* capacity requested for sendQueue
SendQueueCap == 4 * HttpWorkers

\* status codes the remote server answers with
StatusCodes == {200, 302, 404, 499, 503}

\* ways dosendOne can end before a response is received
SendErrors == {"template", "encoding", "request", "network"}

NoResult == [cause |-> "none", code |-> 0]

HttpInit0 ==
    /\ sendQueue = <<>>
    /\ sendQueueDisposed = FALSE
    /\ wpc = [w \in HttpSenders |-> "get"]
    /\ wmsg = [w \in HttpSenders |-> ZeroUid]
    /\ httpReports = NoReports(HttpUids)
    /\ httpFatal = 0
    /\ httpResult = [u \in HttpUids |-> NoResult]
    /\ httpSent = 0
    /\ httpAccepted = {}
    /\ httpClose = "open"

\* dosendOne: how a response status code is reported to the store
SuccessReport == "ack"
ClientErrorReport_Permerr == "permerr"
ClientErrorReport == "nack"
ServerErrorReport == "nack"
UnexpectedReport == "nack"

StatusReport(code) ==
    IF 200 <= code /\ code < 300 THEN SuccessReport
    ELSE IF 400 <= code /\ code < 500 THEN ClientErrorReport
    ELSE IF 500 <= code /\ code < 600 THEN ServerErrorReport
    ELSE UnexpectedReport

\* dosendOne: what is reported when no response was obtained
ErrorReport(cause) == IF cause = "network" THEN "nack" ELSE "permerr"

\* HTTPDestination.sendOne: Put on the send queue; on a disposed queue the
\* message is nacked and the destination goes fatal
HttpSendOne ==
    /\ httpSent < HttpMsgs
    /\ httpSent' = httpSent + 1
    /\ IF sendQueueDisposed
         THEN /\ httpReports' = Reported(httpReports, httpSent + 1, "nack")
              /\ httpFatal' = DoFatal(httpFatal)
              /\ UNCHANGED <<sendQueue, httpAccepted>>
         ELSE /\ Len(sendQueue) < SendQueueCap
              /\ sendQueue' = Append(sendQueue, httpSent + 1)
              /\ httpAccepted' = httpAccepted \cup {httpSent + 1}
              /\ UNCHANGED <<httpReports, httpFatal>>
    /\ UNCHANGED <<sendQueueDisposed, wpc, wmsg, httpResult, httpClose>>
    /\ UNCHANGED nonHttpVars

\* dosend: "msg, err = d.sendQueue.Get()"; return when the queue is
\* disposed and empty
DosendGet(w) ==
    /\ wpc[w] = "get"
    /\ IF sendQueue # <<>>
         THEN /\ wmsg' = [wmsg EXCEPT ![w] = Head(sendQueue)]
              /\ sendQueue' = Tail(sendQueue)
              /\ wpc' = [wpc EXCEPT ![w] = "send"]
         ELSE /\ sendQueueDisposed
              /\ wpc' = [wpc EXCEPT ![w] = "exited"]
              /\ UNCHANGED <<wmsg, sendQueue>>
    /\ UNCHANGED <<sendQueueDisposed, httpReports, httpFatal, httpResult,
                   httpSent, httpAccepted, httpClose>>
    /\ UNCHANGED nonHttpVars

\* dosendOne ending without a response: template, encoding and request
\* errors are permanent and dosend goes on; a network error is nacked and
\* dosend calls dofatal and returns
DosendOneError(w, cause) ==
    /\ wpc[w] = "send"
    /\ httpResult' = [httpResult EXCEPT ![wmsg[w]] =
                         [cause |-> cause, code |-> 0]]
    /\ httpReports' = Reported(httpReports, wmsg[w], ErrorReport(cause))
    /\ httpFatal' = IF cause = "network" THEN DoFatal(httpFatal)
                    ELSE httpFatal
    /\ wpc' = [wpc EXCEPT ![w] =
                  IF cause = "network" THEN "exited" ELSE "get"]
    /\ wmsg' = [wmsg EXCEPT ![w] = ZeroUid]
    /\ UNCHANGED <<sendQueue, sendQueueDisposed, httpSent, httpAccepted,
                   httpClose>>
    /\ UNCHANGED nonHttpVars

\* dosendOne with a response: 2xx is acked and dosend goes on; any other
\* status is reported, dosendOne returns an error, dosend calls dofatal
\* and returns
DosendOneResponse(w, code) ==
    /\ wpc[w] = "send"
    /\ httpResult' = [httpResult EXCEPT ![wmsg[w]] =
                         [cause |-> "response", code |-> code]]
    /\ httpReports' = Reported(httpReports, wmsg[w], StatusReport(code))
    /\ httpFatal' = IF 200 <= code /\ code < 300 THEN httpFatal
                    ELSE DoFatal(httpFatal)
    /\ wpc' = [wpc EXCEPT ![w] =
                  IF 200 <= code /\ code < 300 THEN "get" ELSE "exited"]
    /\ wmsg' = [wmsg EXCEPT ![w] = ZeroUid]
    /\ UNCHANGED <<sendQueue, sendQueueDisposed, httpSent, httpAccepted,
                   httpClose>>
    /\ UNCHANGED nonHttpVars

\* HTTPDestination.Close: d.sendQueue.Dispose(), then d.wg.Wait()
HttpCloseDispose ==
    /\ httpClose = "open"
    /\ sendQueueDisposed' = TRUE
    /\ httpClose' = "waiting"
    /\ UNCHANGED <<sendQueue, wpc, wmsg, httpReports, httpFatal, httpResult,
                   httpSent, httpAccepted>>
    /\ UNCHANGED nonHttpVars

RECURSIVE NackAll(_, _)
NackAll_None(reports, q) == reports
\* HTTPDestination.Close: "nack remaining messages"
NackAll(reports, q) ==
    IF q = <<>> THEN reports
    ELSE NackAll(Reported(reports, Head(q), "nack"), Tail(q))

\* HTTPDestination.Close: every dosend returned; the messages left in the
\* queue are nacked
HttpCloseDrain ==
    /\ httpClose = "waiting"
    /\ \A w \in HttpSenders : wpc[w] = "exited"
    /\ httpReports' = NackAll(httpReports, sendQueue)
    /\ sendQueue' = <<>>
    /\ httpClose' = "closed"
    /\ UNCHANGED <<sendQueueDisposed, wpc, wmsg, httpFatal, httpResult,
                   httpSent, httpAccepted>>
    /\ UNCHANGED nonHttpVars

HttpNext ==
    \/ HttpSendOne
    \/ \E w \in HttpSenders : DosendGet(w)
    \/ \E w \in HttpSenders : \E cause \in SendErrors :
           DosendOneError(w, cause)
    \/ \E w \in HttpSenders : \E code \in StatusCodes :
           DosendOneResponse(w, code)
    \/ HttpCloseDispose
    \/ HttpCloseDrain

(***************************************************************************)
(* The TCP destination (store/dests/tcpdest.go)                            *)
(***************************************************************************)
TcpUids == 1..TcpMsgs

\* results of d.clt.Send(message)
SendResults == {"ok", "encoding", "write"}

TcpInit0 ==
    /\ previousUid = ZeroUid
    /\ tcpReports = NoReports(TcpUids)
    /\ tcpFatal = 0
    /\ tcpClosed = FALSE
    /\ tcpSent = 0
    /\ tcpWritten = {}

\* sendOne, err == nil: the uid acked is the one written before, "d.ack(d.previousUid)"
AckTarget_Current(prev, uid) == uid
AckTarget(prev, uid) == prev

\* TCPDestination.sendOne for the next message of Send, with the result
\* d.clt.Send returned
TcpSendOne(result) ==
    /\ ~tcpClosed
    /\ tcpSent < TcpMsgs
    /\ tcpSent' = tcpSent + 1
    /\ IF result = "ok"
         THEN /\ tcpReports' =
                    IF previousUid # ZeroUid
                      THEN Reported(tcpReports,
                                    AckTarget(previousUid, tcpSent + 1), "ack")
                      ELSE tcpReports
              /\ previousUid' = tcpSent + 1
              /\ tcpWritten' = tcpWritten \cup {tcpSent + 1}
              /\ UNCHANGED tcpFatal
         ELSE IF result = "encoding"
           THEN /\ tcpReports' = Reported(tcpReports, tcpSent + 1, "permerr")
                /\ UNCHANGED <<previousUid, tcpWritten, tcpFatal>>
           ELSE /\ tcpReports' =
                      IF previousUid # ZeroUid
                        THEN Reported(Reported(tcpReports, tcpSent + 1, "nack"),
                                      previousUid, "nack")
                        ELSE Reported(tcpReports, tcpSent + 1, "nack")
                /\ previousUid' = ZeroUid
                /\ tcpFatal' = DoFatal(tcpFatal)
                /\ UNCHANGED tcpWritten
    /\ UNCHANGED tcpClosed
    /\ UNCHANGED nonTcpVars

\* TCPDestination.Close: "return d.clt.Close()"
TcpClose ==
    /\ ~tcpClosed
    /\ tcpClosed' = TRUE
    /\ UNCHANGED <<previousUid, tcpReports, tcpFatal, tcpSent, tcpWritten>>
    /\ UNCHANGED nonTcpVars

TcpNext ==
    \/ \E result \in SendResults : TcpSendOne(result)
    \/ TcpClose

(***************************************************************************)
(* The fatal sentinel and the rebind timer of a destination                *)
(* (store/dests/base.go, tcpdest.go, HTTP destination)                     *)
(***************************************************************************)
\* goroutines that call dofatal: two sending goroutines (send errors) and
\* the rebind timer goroutine
FatalSenders == {"sender1", "sender2"}

FatalCallers == FatalSenders \cup {"rebind"}

\* values of config.Rebind the destination may be created with
RebindPeriods == {-1, 0, 1}

FatalInit0 ==
    /\ destCreated = FALSE
    /\ rebindPeriod = 0
    /\ ctxDone = FALSE
    /\ timerElapsed = FALSE
    /\ onceDone = FALSE
    /\ onceLock = "none"
    /\ fatalCloses = 0
    /\ fatalCounter = 0
    /\ fpc = [g \in FatalCallers |-> IF g = "rebind" THEN "off" ELSE "idle"]
    /\ fcalls = [g \in FatalCallers |-> 0]
    /\ freturned = [g \in FatalCallers |-> 0]
    /\ rebindFatal = FALSE
    /\ cancelledFirst = FALSE
    /\ tookCtxDone = FALSE

\* NewTCPDestination / NewHTTPDestination: "if rebind > 0 { go func() ... }"
RebindArmed_Always(r) == TRUE
RebindArmed(r) == r > 0

\* sync.Once.Do: f is skipped once done is set
OnceSkips_Never(done) == FALSE
OnceSkips(done) == done

\* NewTCPDestination / NewHTTPDestination with config.Rebind = r
NewDestination(r) ==
    /\ ~destCreated
    /\ destCreated' = TRUE
    /\ rebindPeriod' = r
    /\ fpc' = [fpc EXCEPT !["rebind"] =
                  IF RebindArmed(r) THEN "select" ELSE "off"]
    /\ UNCHANGED <<ctxDone, timerElapsed, onceDone, onceLock, fatalCloses,
                   fatalCounter, fcalls, freturned, rebindFatal,
                   cancelledFirst, tookCtxDone>>
    /\ UNCHANGED nonFatalVars

\* the store cancels the context given to the destination
CtxCancel ==
    /\ destCreated
    /\ ~ctxDone
    /\ ctxDone' = TRUE
    /\ cancelledFirst' = ~timerElapsed
    /\ UNCHANGED <<destCreated, rebindPeriod, timerElapsed, onceDone, onceLock,
                   fatalCloses, fatalCounter, fpc, fcalls, freturned,
                   rebindFatal, tookCtxDone>>
    /\ UNCHANGED nonFatalVars

\* the rebind period elapses: the channel of time.After(rebind) is ready
TimerElapses ==
    /\ destCreated
    /\ RebindArmed(rebindPeriod)
    /\ ~timerElapsed
    /\ timerElapsed' = TRUE
    /\ UNCHANGED <<destCreated, rebindPeriod, ctxDone, onceDone, onceLock, fatalCloses,
                   fatalCounter, fpc, fcalls, freturned, rebindFatal,
                   cancelledFirst, tookCtxDone>>
    /\ UNCHANGED nonFatalVars

\* rebind goroutine: select takes "case <-ctx.Done()" and the goroutine ends
RebindCtxDone ==
    /\ fpc["rebind"] = "select"
    /\ ctxDone
    /\ fpc' = [fpc EXCEPT !["rebind"] = "exit"]
    /\ tookCtxDone' = TRUE
    /\ UNCHANGED <<destCreated, rebindPeriod, ctxDone, timerElapsed, onceDone, onceLock,
                   fatalCloses, fatalCounter, fcalls, freturned,
                   rebindFatal, cancelledFirst>>
    /\ UNCHANGED nonFatalVars

\* rebind goroutine: select takes "case <-time.After(rebind)", d.dofatal()
RebindExpired ==
    /\ fpc["rebind"] = "select"
    /\ timerElapsed
    /\ fpc' = [fpc EXCEPT !["rebind"] = "once"]
    /\ fcalls' = [fcalls EXCEPT !["rebind"] = @ + 1]
    /\ rebindFatal' = TRUE
    /\ UNCHANGED <<destCreated, rebindPeriod, ctxDone, timerElapsed, onceDone, onceLock,
                   fatalCloses, fatalCounter, freturned, cancelledFirst,
                   tookCtxDone>>
    /\ UNCHANGED nonFatalVars

\* a sending goroutine hits an error and calls d.dofatal()
SendFails(g) ==
    /\ destCreated
    /\ fpc[g] = "idle"
    /\ fcalls[g] < MaxFatalCalls
    /\ fpc' = [fpc EXCEPT ![g] = "once"]
    /\ fcalls' = [fcalls EXCEPT ![g] = @ + 1]
    /\ UNCHANGED <<destCreated, rebindPeriod, ctxDone, timerElapsed, onceDone, onceLock,
                   fatalCloses, fatalCounter, freturned, rebindFatal,
                   cancelledFirst, tookCtxDone>>
    /\ UNCHANGED nonFatalVars

\* where a goroutine goes when dofatal returns
AfterFatal(g) == IF g = "rebind" THEN "exit" ELSE "idle"

\* dofatal, base.once.Do: the first look at done, without the mutex
OnceLoad(g) ==
    /\ fpc[g] = "once"
    /\ IF OnceSkips(onceDone)
         THEN /\ fpc' = [fpc EXCEPT ![g] = AfterFatal(g)]
              /\ freturned' = [freturned EXCEPT ![g] = @ + 1]
         ELSE /\ fpc' = [fpc EXCEPT ![g] = "slow"]
              /\ UNCHANGED freturned
    /\ UNCHANGED <<destCreated, rebindPeriod, ctxDone, timerElapsed, onceDone, onceLock,
                   fatalCloses, fatalCounter, fcalls, rebindFatal,
                   cancelledFirst, tookCtxDone>>
    /\ UNCHANGED nonFatalVars

\* dofatal, base.once.Do: takes the mutex and looks at done again
OnceLock(g) ==
    /\ fpc[g] = "slow"
    /\ onceLock = "none"
    /\ IF OnceSkips(onceDone)
         THEN /\ fpc' = [fpc EXCEPT ![g] = AfterFatal(g)]
              /\ freturned' = [freturned EXCEPT ![g] = @ + 1]
              /\ UNCHANGED onceLock
         ELSE /\ fpc' = [fpc EXCEPT ![g] = "close"]
              /\ onceLock' = g
              /\ UNCHANGED freturned
    /\ UNCHANGED <<destCreated, rebindPeriod, ctxDone, timerElapsed, onceDone,
                   fatalCloses, fatalCounter, fcalls, rebindFatal,
                   cancelledFirst, tookCtxDone>>
    /\ UNCHANGED nonFatalVars

\* dofatal: fatalCounter...Inc(); close(base.fatal); done is set and the
\* mutex released
FatalClose(g) ==
    /\ fpc[g] = "close"
    /\ fatalCounter' = fatalCounter + 1
    /\ fatalCloses' = fatalCloses + 1
    /\ onceDone' = TRUE
    /\ onceLock' = "none"
    /\ fpc' = [fpc EXCEPT ![g] = AfterFatal(g)]
    /\ freturned' = [freturned EXCEPT ![g] = @ + 1]
    /\ UNCHANGED <<destCreated, rebindPeriod, ctxDone, timerElapsed, fcalls, rebindFatal,
                   cancelledFirst, tookCtxDone>>
    /\ UNCHANGED nonFatalVars

\* steps of the goroutines themselves
FatalStep ==
    \/ RebindCtxDone \/ RebindExpired
    \/ \E g \in FatalCallers : OnceLoad(g) \/ OnceLock(g) \/ FatalClose(g)

FatalNext ==
    \/ \E r \in RebindPeriods : NewDestination(r)
    \/ CtxCancel
    \/ TimerElapses
    \/ \E g \in FatalSenders : SendFails(g)
    \/ FatalStep

(***************************************************************************)
(* The binder: listeners, accept goroutines and the connection manager     *)
(* (sys/binderserver.go)                                                   *)
(***************************************************************************)
StreamAddrs == {"tcp:a"}

PacketAddrs == {"udp:b"}

Uids == 1..MaxConns

ListenerIds == 1..MaxListeners

\* the empty uid of "closeconn" and of the reset messages
EmptyUid == 0

\* listeners[addr] when the address has no listener
NoListener == 0

IsStream(addr) == addr \in StreamAddrs

BinderInit0 ==
    /\ bmain = "scan"
    /\ barg = EmptyUid
    /\ listeners = [a \in StreamAddrs |-> NoListener]
    /\ lst = <<>>
    /\ mgr = "run"
    /\ connections = {}
    /\ packetconnections = {}
    /\ connfiles = {}
    /\ conns = <<>>
    /\ nextUid = 1
    /\ ncmds = 0
    /\ handed = {}
    /\ closeCause = [u \in Uids |-> "none"]
    /\ stoppedAddrs = {}
    /\ lateNewconn = {}
    /\ resetDone = FALSE
    /\ closeNamed = {}

\* the address is bound by a listener that has not been closed
AddrInUse(addr) == \E i \in 1..Len(lst) : lst[i].addr = addr /\ lst[i].open

\* l.Close() on the listeners of a set of ids
CloseListeners(ids) ==
    [i \in 1..Len(lst) |->
        IF i \in ids THEN [lst[i] EXCEPT !.open = FALSE] ELSE lst[i]]

\* conn.Close() on a set of uids, remembering why
CloseConns(uids) ==
    [u \in 1..Len(conns) |->
        IF u \in uids THEN [conns[u] EXCEPT !.open = FALSE] ELSE conns[u]]

CausedBy(uids, cause) ==
    [u \in Uids |-> IF u \in uids THEN cause ELSE closeCause[u]]

\* a command is read by scanner.Scan()
ReadCommand ==
    /\ bmain = "scan"
    /\ ncmds < MaxCmds
    /\ ncmds' = ncmds + 1

\* "listen <addr>" whose net.Listen / net.ListenPacket fails: an error
\* message is written to the child and nothing else changes
ListenFails(addr) ==
    /\ ReadCommand
    /\ UNCHANGED <<bmain, barg, listeners, lst, mgr, connections,
                   packetconnections, connfiles, conns, nextUid, handed,
                   closeCause, stoppedAddrs, lateNewconn, resetDone>>
    /\ UNCHANGED closeNamed
    /\ UNCHANGED nonBinderVars

\* "listen <addr>" for a stream address: BinderListen opens the listener and
\* starts its accept goroutine; the listener is put in the listeners map
ListenStream(addr) ==
    /\ ReadCommand
    /\ IsStream(addr)
    /\ ~AddrInUse(addr)
    /\ Len(lst) < MaxListeners
    /\ lst' = Append(lst, [addr |-> addr, open |-> TRUE, pc |-> "accept",
                           hand |-> EmptyUid])
    /\ listeners' = [listeners EXCEPT ![addr] = Len(lst) + 1]
    /\ stoppedAddrs' = stoppedAddrs \ {addr}
    /\ resetDone' = FALSE
    /\ UNCHANGED <<bmain, barg, mgr, connections, packetconnections,
                   connfiles, conns, nextUid, handed, closeCause,
                   lateNewconn>>
    /\ UNCHANGED closeNamed
    /\ UNCHANGED nonBinderVars

\* "listen <addr>" for a packet address: BinderPacket opens the socket, a
\* uid is drawn and the socket is sent to the manager on pchan
ListenPacket(addr) ==
    /\ ReadCommand
    /\ ~IsStream(addr)
    /\ \A u \in 1..Len(conns) : ~(conns[u].addr = addr /\ conns[u].open)
    /\ nextUid <= MaxConns
    /\ conns' = Append(conns, [addr |-> addr, open |-> TRUE])
    /\ nextUid' = nextUid + 1
    /\ bmain' = "listen_p"
    /\ barg' = nextUid
    /\ stoppedAddrs' = stoppedAddrs \ {addr}
    /\ resetDone' = FALSE
    /\ UNCHANGED <<listeners, lst, mgr, connections, packetconnections,
                   connfiles, handed, closeCause, lateNewconn>>
    /\ UNCHANGED closeNamed
    /\ UNCHANGED nonBinderVars

\* "closeconn <uid>": the uid (possibly empty) is sent on schan, then pchan
CloseConn(u) ==
    /\ ReadCommand
    /\ bmain' = "closeconn_s"
    /\ barg' = u
    /\ closeNamed' = closeNamed \cup (Uids \cap {u})
    /\ UNCHANGED <<listeners, lst, mgr, connections, packetconnections,
                   connfiles, conns, nextUid, handed, closeCause,
                   stoppedAddrs, lateNewconn, resetDone>>
    /\ UNCHANGED nonBinderVars

\* "stoplisten <addr>": the listener is closed and deleted from the map,
\* "stopped <addr>" is written to the child
StopListen(addr) ==
    /\ ReadCommand
    /\ IF IsStream(addr) /\ listeners[addr] # NoListener
         THEN /\ lst' = CloseListeners({listeners[addr]})
              /\ listeners' = [listeners EXCEPT ![addr] = NoListener]
         ELSE UNCHANGED <<lst, listeners>>
    /\ stoppedAddrs' = stoppedAddrs \cup {addr}
    /\ UNCHANGED <<bmain, barg, mgr, connections, packetconnections,
                   connfiles, conns, nextUid, handed, closeCause,
                   lateNewconn, resetDone>>
    /\ UNCHANGED closeNamed
    /\ UNCHANGED nonBinderVars

\* "reset": every listener of the map is closed, the map is emptied, and an
\* empty message is sent on schan, then pchan
Reset ==
    /\ ReadCommand
    /\ lst' = CloseListeners({listeners[a] : a \in StreamAddrs})
    /\ listeners' = [a \in StreamAddrs |-> NoListener]
    /\ bmain' = "reset_s"
    /\ barg' = EmptyUid
    /\ UNCHANGED <<mgr, connections, packetconnections, connfiles, conns,
                   nextUid, handed, closeCause, stoppedAddrs, lateNewconn,
                   resetDone>>
    /\ UNCHANGED closeNamed
    /\ UNCHANGED nonBinderVars

\* "byebye" (or the end of the input): Binder returns, its deferred cancel()
\* runs and the goroutine of every BinderListen closes its listener
Byebye ==
    /\ bmain = "scan"
    /\ bmain' = "done"
    /\ lst' = CloseListeners(1..Len(lst))
    /\ UNCHANGED <<barg, listeners, mgr, connections, packetconnections,
                   connfiles, conns, nextUid, ncmds, handed, closeCause,
                   stoppedAddrs, lateNewconn, resetDone>>
    /\ UNCHANGED closeNamed
    /\ UNCHANGED nonBinderVars

\* accept goroutine: l.Accept() returns a connection and a uid is drawn
Accept(i) ==
    /\ i \in 1..Len(lst)
    /\ lst[i].pc = "accept"
    /\ lst[i].open
    /\ nextUid <= MaxConns
    /\ conns' = Append(conns, [addr |-> lst[i].addr, open |-> TRUE])
    /\ nextUid' = nextUid + 1
    /\ lst' = [lst EXCEPT ![i].pc = "have", ![i].hand = nextUid]
    /\ UNCHANGED <<bmain, barg, listeners, mgr, connections,
                   packetconnections, connfiles, ncmds, handed, closeCause,
                   stoppedAddrs, lateNewconn, resetDone>>
    /\ UNCHANGED closeNamed
    /\ UNCHANGED nonBinderVars

\* accept goroutine: l.Accept() returns an error (the listener was closed,
\* or any other failure); cancel() closes the listener, the goroutine ends
AcceptError(i) ==
    /\ i \in 1..Len(lst)
    /\ lst[i].pc = "accept"
    /\ lst' = [lst EXCEPT ![i].pc = "exit", ![i].open = FALSE]
    /\ UNCHANGED <<bmain, barg, listeners, mgr, connections,
                   packetconnections, connfiles, conns, nextUid, ncmds,
                   handed, closeCause, stoppedAddrs, lateNewconn, resetDone>>
    /\ UNCHANGED closeNamed
    /\ UNCHANGED nonBinderVars

\* uids whose address has had a stopped message and no listen since
Late(uids) == {u \in uids : conns[u].addr \in stoppedAddrs}

\* manager, "case bc := <-schan" with a connection from an accept goroutine:
\* if conn.File() works the connection is registered and newconn is written
ManageConn(i, fileOk) ==
    /\ mgr = "run"
    /\ i \in 1..Len(lst)
    /\ lst[i].pc = "have"
    /\ lst' = [lst EXCEPT ![i].pc = "accept", ![i].hand = EmptyUid]
    /\ IF fileOk
         THEN /\ connections' = connections \cup {lst[i].hand}
              /\ connfiles' = connfiles \cup {lst[i].hand}
              /\ handed' = handed \cup {lst[i].hand}
              /\ lateNewconn' = lateNewconn \cup Late({lst[i].hand})
         ELSE UNCHANGED <<connections, connfiles, handed, lateNewconn>>
    /\ UNCHANGED <<bmain, barg, listeners, mgr, packetconnections, conns,
                   nextUid, ncmds, closeCause, stoppedAddrs, resetDone>>
    /\ UNCHANGED closeNamed
    /\ UNCHANGED nonBinderVars

\* manager, "case bc := <-pchan" with the packet socket of a listen command
ManagePacketConn(fileOk) ==
    /\ mgr = "run"
    /\ bmain = "listen_p"
    /\ bmain' = "scan"
    /\ barg' = EmptyUid
    /\ IF fileOk
         THEN /\ packetconnections' = packetconnections \cup {barg}
              /\ connfiles' = connfiles \cup {barg}
              /\ handed' = handed \cup {barg}
              /\ lateNewconn' = lateNewconn \cup Late({barg})
         ELSE UNCHANGED <<packetconnections, connfiles, handed, lateNewconn>>
    /\ UNCHANGED <<listeners, lst, mgr, connections, conns, nextUid, ncmds,
                   closeCause, stoppedAddrs, resetDone>>
    /\ UNCHANGED closeNamed
    /\ UNCHANGED nonBinderVars

\* the uids a message without connection makes the manager close, out of
\* one of its maps: all of them for the empty uid, else the named one
Targets_All(registered, uid) == registered
Targets(registered, uid) ==
    IF uid = EmptyUid THEN registered ELSE registered \cap {uid}

\* the files the same message closes and forgets
FileTargets(registered, uid) ==
    IF uid = EmptyUid THEN registered ELSE {uid}

CloseCauseOf(uid) == IF uid = EmptyUid THEN "all" ELSE "closeconn"

\* manager, "case bc := <-schan" with bc.Conn == nil
ManageStreamClose ==
    /\ mgr = "run"
    /\ bmain \in {"closeconn_s", "reset_s"}
    /\ bmain' = IF bmain = "closeconn_s" THEN "closeconn_p" ELSE "reset_p"
    /\ connections' = connections \ Targets(connections, barg)
    /\ connfiles' = connfiles \ FileTargets(connections, barg)
    /\ conns' = CloseConns(Targets(connections, barg))
    /\ closeCause' = CausedBy(Targets(connections, barg), CloseCauseOf(barg))
    /\ UNCHANGED <<barg, listeners, lst, mgr, packetconnections, nextUid,
                   ncmds, handed, stoppedAddrs, lateNewconn, resetDone>>
    /\ UNCHANGED closeNamed
    /\ UNCHANGED nonBinderVars

\* manager, "case bc := <-pchan" with bc.Conn == nil
ManagePacketClose ==
    /\ mgr = "run"
    /\ bmain \in {"closeconn_p", "reset_p"}
    /\ bmain' = "scan"
    /\ barg' = EmptyUid
    /\ packetconnections' =
           packetconnections \ Targets(packetconnections, barg)
    /\ connfiles' = connfiles \ FileTargets(packetconnections, barg)
    /\ conns' = CloseConns(Targets(packetconnections, barg))
    /\ closeCause' =
           CausedBy(Targets(packetconnections, barg), CloseCauseOf(barg))
    /\ resetDone' = (resetDone \/ bmain = "reset_p")
    /\ UNCHANGED <<listeners, lst, mgr, connections, nextUid, ncmds,
                   handed, stoppedAddrs, lateNewconn>>
    /\ UNCHANGED closeNamed
    /\ UNCHANGED nonBinderVars

\* manager, "case <-ctx.Done()": the packet connections are closed and the
\* goroutine returns
ManageCtxDone ==
    /\ mgr = "run"
    /\ bmain = "done"
    /\ mgr' = "exit"
    /\ conns' = CloseConns(packetconnections)
    /\ closeCause' = CausedBy(packetconnections, "ctx")
    /\ UNCHANGED <<bmain, barg, listeners, lst, connections,
                   packetconnections, connfiles, nextUid, ncmds, handed,
                   stoppedAddrs, lateNewconn, resetDone>>
    /\ UNCHANGED closeNamed
    /\ UNCHANGED nonBinderVars

BinderNext ==
    \/ \E addr \in StreamAddrs \cup PacketAddrs : ListenFails(addr)
    \/ \E addr \in StreamAddrs : ListenStream(addr)
    \/ \E addr \in PacketAddrs : ListenPacket(addr)
    \/ \E u \in {EmptyUid} \cup Uids : CloseConn(u)
    \/ \E addr \in StreamAddrs \cup PacketAddrs : StopListen(addr)
    \/ Reset
    \/ Byebye
    \/ \E i \in ListenerIds : Accept(i) \/ AcceptError(i)
    \/ \E i \in ListenerIds : \E fileOk \in BOOLEAN : ManageConn(i, fileOk)
    \/ \E fileOk \in BOOLEAN : ManagePacketConn(fileOk)
    \/ ManageStreamClose
    \/ ManagePacketClose
    \/ ManageCtxDone

(***************************************************************************)
(* TcpSplit, the bufio.SplitFunc of the TCP source                         *)
(***************************************************************************)
\* bytes that matter to the framing: blanks, '<', digits, a sign, a letter
SP == " "
CR == "\r"
LF == "\n"
Blanks == {SP, CR, LF}
Bytes == {SP, CR, LF, "<", "0", "1", "2", "-", "a"}
Buffers == UNION {[1..n -> Bytes] : n \in 0..MaxBuf}
DigitVal ==
    ("0" :> 0) @@ ("1" :> 1) @@ ("2" :> 2) @@ ("3" :> 3) @@ ("4" :> 4) @@
    ("5" :> 5) @@ ("6" :> 6) @@ ("7" :> 7) @@ ("8" :> 8) @@ ("9" :> 9)

\* what a split function returns, or the panic that ends the call
NoToken == <<>>
Ret(advance, token, err) ==
    [advance |-> advance, token |-> token, hasToken |-> token # <<>>,
     err |-> err, panic |-> FALSE]
Panic ==
    [advance |-> 0, token |-> NoToken, hasToken |-> FALSE, err |-> "nil",
     panic |-> TRUE]

SplitInit0 ==
    /\ splitData = <<>>
    /\ splitAtEOF = FALSE
    /\ splitPc = "call"
    /\ splitRet = Ret(0, NoToken, "nil")

RECURSIVE TrimLeft(_, _)
TrimLeft(s, cutset) ==
    IF s # <<>> /\ Head(s) \in cutset THEN TrimLeft(Tail(s), cutset) ELSE s

RECURSIVE TrimRight(_, _)
TrimRight(s, cutset) ==
    IF s # <<>> /\ s[Len(s)] \in cutset
    THEN TrimRight(SubSeq(s, 1, Len(s) - 1), cutset)
    ELSE s

Trim(s, cutset) == TrimRight(TrimLeft(s, cutset), cutset)

\* index (from 0) of the first byte of s that is in chars, or -1
IndexAny(s, chars) ==
    IF \E i \in 1..Len(s) : s[i] \in chars
    THEN (CHOOSE i \in 1..Len(s) :
              s[i] \in chars /\ \A j \in 1..(i - 1) : s[j] \notin chars) - 1
    ELSE -1

IndexByte(s, c) == IndexAny(s, {c})

RECURSIVE DecValue(_)
DecValue(s) ==
    IF s = <<>> THEN 0
    ELSE 10 * DecValue(SubSeq(s, 1, Len(s) - 1)) + DigitVal[s[Len(s)]]

\* strconv.Atoi: an optional sign, then one digit or more
Atoi(s) ==
    LET signed == s # <<>> /\ Head(s) \in {"+", "-"}
        body   == IF signed THEN Tail(s) ELSE s
        bad    == body = <<>> \/ \E i \in 1..Len(body) : body[i] \notin DOMAIN DigitVal
    IN  IF bad THEN [err |-> TRUE, n |-> 0]
        ELSE [err |-> FALSE,
              n |-> IF Head(s) = "-" THEN 0 - DecValue(body) ELSE DecValue(body)]

getline(data, trimmed, eoferr) ==
    LET lf == IndexByte(data, LF)
    IN  IF lf = 0 THEN Ret(0, NoToken, eoferr)
        ELSE IF lf < 0 THEN Panic   \* data[0:-1]
        ELSE Ret(lf + trimmed + 1, Trim(SubSeq(data, 1, lf), Blanks), "nil")

SplitAdvance_NoSeparator(trimmed, sp, datalen) == trimmed + sp + datalen
SplitAdvance(trimmed, sp, datalen) == trimmed + sp + 1 + datalen

TcpSplit(data, isEOF) ==
    LET eoferr      == IF isEOF THEN "EOF" ELSE "nil"
        trimmedData == TrimLeft(data, Blanks)
        trimmed     == Len(data) - Len(trimmedData)
        sp          == IndexAny(trimmedData, {SP, LF})
        datalenStr  == Trim(SubSeq(trimmedData, 1, sp), Blanks)
        datalen     == Atoi(datalenStr)
        advance     == SplitAdvance(trimmed, sp, datalen.n)
    IN  IF Len(trimmedData) = 0 THEN Ret(0, NoToken, eoferr)
        ELSE IF trimmedData[1] = "<" THEN getline(trimmedData, trimmed, eoferr)
        ELSE IF sp <= 0 THEN Ret(0, NoToken, eoferr)
        ELSE IF datalen.err THEN getline(trimmedData, trimmed, eoferr)
        ELSE IF Len(data) < advance THEN Ret(0, NoToken, eoferr)
        ELSE IF datalen.n < 0 THEN Panic   \* trimmedData[sp+1:sp+1+datalen]
        ELSE Ret(advance,
                 Trim(SubSeq(trimmedData, sp + 2, sp + 1 + datalen.n), Blanks),
                 "nil")

\* one call of the split function on the buffer
TcpSplitCall ==
    /\ splitPc = "call"
    /\ splitRet' = TcpSplit(splitData, splitAtEOF)
    /\ splitPc' = "returned"
    /\ UNCHANGED <<splitData, splitAtEOF>>
    /\ UNCHANGED nonSplitVars

SplitNext == TcpSplitCall

(***************************************************************************)
(* TCP source: tcpHandler.HandleConnection and TcpServiceImpl.parse        *)
(***************************************************************************)
SourceParsers == 1..NumParsers
FrameStyles == {"lf", "angle", "octet"}
FrameDescs == [style : FrameStyles, len : 1..(MaxMessageSize + 1)]
Streams == UNION {[1..n -> FrameDescs] : n \in 1..MaxFrames}
DecoderResults == {"unknown", "error", "ok"}
StashResults == {"ok", "nonfatal", "fatal"}
\* raw messages carry the order in which the handler queued them
NoRaw == [id |-> 0, msg |-> <<>>]

Min(a, b) == IF a < b THEN a ELSE b

Digit(n) == CHOOSE c \in DOMAIN DigitVal : DigitVal[c] = n

\* the message of a frame: len bytes, starting with '<' in the angle style
Payload(f) ==
    IF f.style = "angle"
    THEN <<"<">> \o [i \in 1..(f.len - 1) |-> "a"]
    ELSE [i \in 1..f.len |-> "a"]

\* the bytes of a frame on the wire: a line ended by LF, or a length prefix,
\* a space and the message
FrameBytes(f) ==
    IF f.style = "octet"
    THEN <<Digit(f.len), SP>> \o Payload(f)
    ELSE Payload(f) \o <<LF>>

RECURSIVE WireOf(_)
WireOf(fs) ==
    IF fs = <<>> THEN <<>> ELSE FrameBytes(Head(fs)) \o WireOf(Tail(fs))

SourceInit0 ==
    /\ sentFrames = <<>>
    /\ lineFraming = FALSE
    /\ srcWire = <<>>
    /\ scanBuf = <<>>
    /\ scanStart = 0
    /\ scanErr = "nil"
    /\ hpc = "scan"
    /\ connEnd = "none"
    /\ rawQueue = <<>>
    /\ rawDisposed = FALSE
    /\ incomingMsgs = 0
    /\ ppc = [w \in SourceParsers |-> "get"]
    /\ praw = [w \in SourceParsers |-> NoRaw]
    /\ ParsingErrorCounter = 0
    /\ decodeFailed = <<>>
    /\ stashed = <<>>
    /\ srcFatal = FALSE
    /\ pdone = [w \in SourceParsers |-> <<>>]

\* makeLFTCPSplit(delimiter) with the delimiter LF
LFTCPSplit(data, isEOF) ==
    LET eoferr      == IF isEOF THEN "EOF" ELSE "nil"
        trimmedData == TrimLeft(data, Blanks)
        trimmed     == Len(data) - Len(trimmedData)
        lf          == IndexByte(trimmedData, LF)
    IN  IF Len(trimmedData) = 0 THEN Ret(0, NoToken, eoferr)
        ELSE IF lf < 1 THEN Ret(0, NoToken, eoferr)
        ELSE Ret(trimmed + lf + 1, Trim(SubSeq(trimmedData, 1, lf), Blanks), "nil")

\* scanner.Split(...): the split function the configuration selects
ScannerSplit(data, isEOF) ==
    IF lineFraming THEN LFTCPSplit(data, isEOF) ELSE TcpSplit(data, isEOF)

\* scanner.Buffer(make([]byte, 0, s.MaxMessageSize), s.MaxMessageSize)
ScannerBufLen == MaxMessageSize

\* the handler returns: deferred RemoveConnection closes the connection
EndConnection(cause) ==
    /\ hpc' = "closed"
    /\ connEnd' = cause

\* Scanner.Scan could not make a token and no error is pending: move the
\* data to the front of the buffer when space is needed, give up with
\* ErrTooLong when the buffer is full, otherwise read more input
ScanNeedsData(start, buf) ==
    LET shift    == start > 0 /\ (start + Len(buf) = ScannerBufLen
                                   \/ start > ScannerBufLen \div 2)
        newStart == IF shift THEN 0 ELSE start
    IN  /\ scanBuf' = buf
        /\ scanStart' = newStart
        /\ IF newStart + Len(buf) = ScannerBufLen
           THEN EndConnection("toolong")
           ELSE hpc' = "read" /\ UNCHANGED connEnd
        /\ UNCHANGED <<rawQueue, incomingMsgs, scanErr>>

\* the body of "for scanner.Scan()" for one token: the size test, the copy
\* into a raw message and rawMessagesQueue.Put
HandleToken(token, start, buf) ==
    /\ scanBuf' = buf
    /\ scanStart' = start
    /\ UNCHANGED scanErr
    /\ IF Len(token) = 0
       THEN UNCHANGED <<hpc, connEnd, rawQueue, incomingMsgs>>
       ELSE IF MaxMessageSize > 0 /\ Len(token) > MaxMessageSize
       THEN EndConnection("toolarge") /\ UNCHANGED <<rawQueue, incomingMsgs>>
       ELSE IF rawDisposed
       THEN EndConnection("disposed") /\ UNCHANGED <<rawQueue, incomingMsgs>>
       ELSE /\ rawQueue' = Append(rawQueue, [id |-> incomingMsgs + 1, msg |-> token])
            /\ incomingMsgs' = incomingMsgs + 1
            /\ UNCHANGED <<hpc, connEnd>>

\* one round of Scanner.Scan up to the point where it returns or reads,
\* and the loop body of HandleConnection when it returned a token
HandlerScan ==
    /\ hpc = "scan"
    /\ IF Len(scanBuf) > 0 \/ scanErr # "nil"
       THEN LET r    == ScannerSplit(scanBuf, scanErr # "nil")
                rest == SubSeq(scanBuf, r.advance + 1, Len(scanBuf))
            IN  IF r.panic
                THEN EndConnection("panic")
                     /\ UNCHANGED <<scanBuf, scanStart, scanErr, rawQueue, incomingMsgs>>
                ELSE IF r.err # "nil"
                THEN EndConnection("eof")
                     /\ UNCHANGED <<scanBuf, scanStart, scanErr, rawQueue, incomingMsgs>>
                ELSE IF r.advance < 0 \/ r.advance > Len(scanBuf)
                THEN EndConnection("advance")
                     /\ UNCHANGED <<scanBuf, scanStart, scanErr, rawQueue, incomingMsgs>>
                ELSE IF r.hasToken
                THEN HandleToken(r.token, scanStart + r.advance, rest)
                ELSE IF scanErr # "nil"
                THEN EndConnection("eof")
                     /\ scanBuf' = <<>>
                     /\ scanStart' = 0
                     /\ UNCHANGED <<scanErr, rawQueue, incomingMsgs>>
                ELSE ScanNeedsData(scanStart + r.advance, rest)
       ELSE ScanNeedsData(scanStart, scanBuf)
    /\ UNCHANGED <<sentFrames, lineFraming, srcWire, rawDisposed, ppc, praw,
                   ParsingErrorCounter, decodeFailed, stashed, srcFatal,
                   pdone>>
    /\ UNCHANGED nonSourceVars

\* Scanner.Scan: s.r.Read(s.buf[s.end:len(s.buf)]) returns n bytes
HandlerRead(n) ==
    /\ hpc = "read"
    /\ n <= Min(ScannerBufLen - (scanStart + Len(scanBuf)), Len(srcWire))
    /\ scanBuf' = scanBuf \o SubSeq(srcWire, 1, n)
    /\ srcWire' = SubSeq(srcWire, n + 1, Len(srcWire))
    /\ hpc' = "scan"
    /\ UNCHANGED <<sentFrames, lineFraming, scanStart, scanErr, connEnd,
                   rawQueue, rawDisposed, incomingMsgs, ppc, praw,
                   ParsingErrorCounter, decodeFailed, stashed, srcFatal,
                   pdone>>
    /\ UNCHANGED nonSourceVars

\* Scanner.Scan: the read fails, with io.EOF once the client has closed or
\* with the error of an expired deadline
HandlerReadError ==
    /\ hpc = "read"
    /\ scanErr' = "EOF"
    /\ hpc' = "scan"
    /\ UNCHANGED <<sentFrames, lineFraming, srcWire, scanBuf, scanStart,
                   connEnd, rawQueue, rawDisposed, incomingMsgs, ppc, praw,
                   ParsingErrorCounter, decodeFailed, stashed, srcFatal,
                   pdone>>
    /\ UNCHANGED nonSourceVars

\* Stop: s.rawMessagesQueue.Dispose()
DisposeRawQueue ==
    /\ ~rawDisposed
    /\ rawDisposed' = TRUE
    /\ UNCHANGED <<sentFrames, lineFraming, srcWire, scanBuf, scanStart,
                   scanErr, hpc, connEnd, rawQueue, incomingMsgs, ppc, praw,
                   ParsingErrorCounter, decodeFailed, stashed, srcFatal,
                   pdone>>
    /\ UNCHANGED nonSourceVars

\* parse: raw, err := s.rawMessagesQueue.Get(); return when it gives nothing
ParserGet(w) ==
    /\ ppc[w] = "get"
    /\ rawQueue # <<>> \/ rawDisposed
    /\ IF rawQueue # <<>>
       THEN /\ praw' = [praw EXCEPT ![w] = Head(rawQueue)]
            /\ rawQueue' = Tail(rawQueue)
            /\ ppc' = [ppc EXCEPT ![w] = "parse"]
       ELSE /\ ppc' = [ppc EXCEPT ![w] = "exit"]
            /\ UNCHANGED <<praw, rawQueue>>
    /\ UNCHANGED <<sentFrames, lineFraming, srcWire, scanBuf, scanStart,
                   scanErr, hpc, connEnd, rawDisposed, incomingMsgs,
                   ParsingErrorCounter, decodeFailed, stashed, srcFatal,
                   pdone>>
    /\ UNCHANGED nonSourceVars

\* parseOne on a decoder error: ParsingErrorCounter...Inc()
CountParsingError_Not(counter) == counter
CountParsingError(counter) == counter + 1

\* where parse goes after parseOne returned err
AfterParseOne_Continue(err) == "get"
AfterParseOne(err) == IF err THEN "exit" ELSE "get"

\* parse: s.parseOne(raw, env, gen), s.Pool.Put(raw), return on error
ParseOne(w, decoded, stash) ==
    /\ ppc[w] = "parse"
    /\ IF decoded = "unknown"
       THEN /\ ppc' = [ppc EXCEPT ![w] = AfterParseOne(FALSE)]
            /\ UNCHANGED <<ParsingErrorCounter, decodeFailed, stashed, srcFatal>>
       ELSE IF decoded = "error"
       THEN /\ ParsingErrorCounter' = CountParsingError(ParsingErrorCounter)
            /\ decodeFailed' = Append(decodeFailed, praw[w].id)
            /\ ppc' = [ppc EXCEPT ![w] = AfterParseOne(FALSE)]
            /\ UNCHANGED <<stashed, srcFatal>>
       ELSE /\ stashed' = Append(stashed, praw[w].id)
            /\ srcFatal' = (srcFatal \/ stash = "fatal")
            /\ ppc' = [ppc EXCEPT ![w] = AfterParseOne(stash = "fatal")]
            /\ UNCHANGED <<ParsingErrorCounter, decodeFailed>>
    /\ praw' = [praw EXCEPT ![w] = NoRaw]
    /\ pdone' = [pdone EXCEPT ![w] =
                    Append(@, IF decoded = "ok" THEN stash ELSE decoded)]
    /\ UNCHANGED <<sentFrames, lineFraming, srcWire, scanBuf, scanStart,
                   scanErr, hpc, connEnd, rawQueue, rawDisposed, incomingMsgs>>
    /\ UNCHANGED nonSourceVars

SourceNext ==
    \/ HandlerScan
    \/ \E n \in 1..MaxMessageSize : HandlerRead(n)
    \/ HandlerReadError
    \/ DisposeRawQueue
    \/ \E w \in SourceParsers : ParserGet(w)
    \/ \E w \in SourceParsers, decoded \in DecoderResults, stash \in StashResults :
           ParseOne(w, decoded, stash)

(***************************************************************************)
(* The configuration child: LaunchConfProvider                             *)
(***************************************************************************)
\* the two copies of LaunchConfProvider among the sources
ProvBuilds == {"configuration.go", "part_002"}
\* connection parameters: consul.ConnParams{} and two other values
ZeroParams == 0
ConnParams == {ZeroParams, 1, 2}
NoParams == -1

ProviderInit0 ==
    /\ provBuild = "none"
    /\ provPc = "off"
    /\ provParams = ZeroParams
    /\ provConfdir = FALSE
    /\ provCancel = FALSE
    /\ provOut = <<>>
    /\ provCmds = 0
    /\ provDecoded = NoParams
    /\ provUsed = <<>>

\* case "consulparams": the value of params after a JSON document holding
\* decoded has been unmarshaled without error.  configuration.go unmarshals
\* into params itself and then assigns the empty newparams; the copy in
\* part_002 unmarshals into newparams and assigns it.
ParamsAfterConsulparams(build, decoded) ==
    IF build = "configuration.go" THEN ZeroParams ELSE decoded

\* the child process is launched; scanner.Scan() has not returned yet
LaunchConfProvider(build) ==
    /\ provPc = "off"
    /\ provBuild' = build
    /\ provPc' = "scan"
    /\ UNCHANGED <<provParams, provConfdir, provCancel, provOut, provCmds,
                   provDecoded, provUsed>>
    /\ UNCHANGED nonProviderVars

\* case "confdir", with or without an argument
ProvConfdir(hasArg) ==
    /\ provPc = "scan"
    /\ provCmds < MaxProvCmds
    /\ provCmds' = provCmds + 1
    /\ provConfdir' = (provConfdir \/ hasArg)
    /\ provPc' = IF hasArg THEN "scan" ELSE "exited"
    /\ UNCHANGED <<provBuild, provParams, provCancel, provOut, provDecoded,
                   provUsed>>
    /\ UNCHANGED nonProviderVars

\* case "consulparams" with a JSON document that decodes to p
ProvConsulparams(p) ==
    /\ provPc = "scan"
    /\ provCmds < MaxProvCmds
    /\ provCmds' = provCmds + 1
    /\ provParams' = ParamsAfterConsulparams(provBuild, p)
    /\ provDecoded' = p
    /\ UNCHANGED <<provBuild, provPc, provConfdir, provCancel, provOut,
                   provUsed>>
    /\ UNCHANGED nonProviderVars

\* case "consulparams" without argument or with invalid JSON, and an
\* unknown command: return an error
ProvBadCommand ==
    /\ provPc = "scan"
    /\ provCmds < MaxProvCmds
    /\ provCmds' = provCmds + 1
    /\ provPc' = "exited"
    /\ UNCHANGED <<provBuild, provParams, provConfdir, provCancel, provOut,
                   provDecoded, provUsed>>
    /\ UNCHANGED nonProviderVars

\* case "start" and case "reload": start(confdir, params, r, logger), which
\* fails on an empty confdir or when InitLoad fails (loads = FALSE)
ProvStart(cmd, loads) ==
    LET ok == provConfdir /\ loads
    IN  /\ provPc = "scan"
        /\ provCmds < MaxProvCmds
        /\ provCmds' = provCmds + 1
        /\ provUsed' = Append(provUsed, [used |-> provParams,
                                         decoded |-> provDecoded])
        /\ provOut' = provOut \o
              (IF ok THEN <<"started", "newconf">> ELSE <<>>) \o
              (IF cmd = "start" /\ ~ok THEN <<"starterror">> ELSE <<>>) \o
              (IF cmd = "reload" /\ ok THEN <<"reloaded">> ELSE <<>>)
        /\ provCancel' = (provCancel \/ ok)
        /\ provPc' = IF cmd = "start" /\ ~ok THEN "exited" ELSE "scan"
        /\ UNCHANGED <<provBuild, provParams, provConfdir, provDecoded>>
        /\ UNCHANGED nonProviderVars

\* case "stop", or the end of the standard input
ProvStop ==
    /\ provPc = "scan"
    /\ provCancel' = FALSE
    /\ provPc' = "exited"
    /\ UNCHANGED <<provBuild, provParams, provConfdir, provOut, provCmds,
                   provDecoded, provUsed>>
    /\ UNCHANGED nonProviderVars

ProviderNext ==
    \/ \E build \in ProvBuilds : LaunchConfProvider(build)
    \/ \E hasArg \in BOOLEAN : ProvConfdir(hasArg)
    \/ \E p \in ConnParams : ProvConsulparams(p)
    \/ ProvBadCommand
    \/ \E cmd \in {"start", "reload"}, loads \in BOOLEAN : ProvStart(cmd, loads)
    \/ ProvStop

(***************************************************************************)
(* ConfigurationService.Start, its reader goroutine and                    *)
(* serveChild.setupConfiguration                                           *)
(***************************************************************************)
\* what the reader can find on the child's output
ChildMsgs == {"started", "newconf", "newconf_bad", "starterror", "reloaded",
              "unknown", "eof"}

ConfSvcInit0 ==
    /\ csPc = "launch"
    /\ rdPc = "off"
    /\ confOnce = FALSE
    /\ startedSends = 0
    /\ startedCloses = 0
    /\ sentAfterClose = FALSE
    /\ confKill = FALSE
    /\ outputClosed = FALSE
    /\ startResult = "none"
    /\ readLog = <<>>
    /\ confReceived = 0

\* sync.Once.Do runs its function when it has not run one yet
ConfOnceRuns_Always(done) == TRUE
ConfOnceRuns(done) == ~done

\* Start: setupCmd or cmd.Start fails; close(c.output), return err
CsLaunchFails ==
    /\ csPc = "launch"
    /\ outputClosed' = TRUE
    /\ startResult' = "error"
    /\ csPc' = "returned"
    /\ UNCHANGED <<rdPc, confOnce, startedSends, startedCloses,
                   sentAfterClose, confKill, readLog, confReceived>>
    /\ UNCHANGED nonConfSvcVars

\* Start: the child runs, startedChan is made, the reader goroutine starts
CsLaunchOk ==
    /\ csPc = "launch"
    /\ csPc' = "write"
    /\ rdPc' = "scan"
    /\ UNCHANGED <<confOnce, startedSends, startedCloses, sentAfterClose,
                   confKill, outputClosed, startResult, readLog, confReceived>>
    /\ UNCHANGED nonConfSvcVars

\* Start: c.W of confdir, consulparams and start; then <-startedChan, or
\* c.Stop() when a write failed
CsWrite(ok) ==
    /\ csPc = "write"
    /\ csPc' = IF ok THEN "wait_started" ELSE "stop"
    /\ startResult' = IF ok THEN startResult ELSE "error"
    /\ UNCHANGED <<rdPc, confOnce, startedSends, startedCloses,
                   sentAfterClose, confKill, outputClosed, readLog,
                   confReceived>>
    /\ UNCHANGED nonConfSvcVars

\* Start: err = <-startedChan on the closed channel gives nil; return nil
CsRecvClosed ==
    /\ csPc = "wait_started"
    /\ startedCloses > 0
    /\ startResult' = "nil"
    /\ csPc' = "returned"
    /\ UNCHANGED <<rdPc, confOnce, startedSends, startedCloses,
                   sentAfterClose, confKill, outputClosed, readLog,
                   confReceived>>
    /\ UNCHANGED nonConfSvcVars

\* reader, inside once.Do: "startedChan <- err; close(startedChan)" meets
\* the receive of Start, which then calls c.Stop()
RdSendStarted ==
    /\ rdPc = "send_started"
    /\ csPc = "wait_started"
    /\ startedCloses = 0
    /\ startedSends' = startedSends + 1
    /\ startedCloses' = startedCloses + 1
    /\ startResult' = "error"
    /\ csPc' = "stop"
    /\ rdPc' = "defer_wait"
    /\ UNCHANGED <<confOnce, sentAfterClose, confKill, outputClosed, readLog,
                   confReceived>>
    /\ UNCHANGED nonConfSvcVars

\* Stop: c.W("stop"); "for range c.output" when it was written
CsStop(ok) ==
    /\ csPc = "stop"
    /\ csPc' = IF ok THEN "drain" ELSE "returned"
    /\ UNCHANGED <<rdPc, confOnce, startedSends, startedCloses,
                   sentAfterClose, confKill, outputClosed, startResult,
                   readLog, confReceived>>
    /\ UNCHANGED nonConfSvcVars

\* Stop: "for range c.output" receives a configuration and drops it
CsDrainRecv ==
    /\ csPc = "drain"
    /\ rdPc = "send_output"
    /\ rdPc' = "scan"
    /\ UNCHANGED <<csPc, confOnce, startedSends, startedCloses,
                   sentAfterClose, confKill, outputClosed, startResult,
                   readLog, confReceived>>
    /\ UNCHANGED nonConfSvcVars

\* Stop: c.output is closed, Stop and Start return
CsDrainEnd ==
    /\ csPc = "drain"
    /\ outputClosed
    /\ csPc' = "returned"
    /\ UNCHANGED <<rdPc, confOnce, startedSends, startedCloses,
                   sentAfterClose, confKill, outputClosed, startResult,
                   readLog, confReceived>>
    /\ UNCHANGED nonConfSvcVars

\* reader: the function given to once.Do sends an error and closes
\* startedChan (a send on the closed channel panics), or once.Do skips it
\* and the deferred function goes on to wait for the child
OnceSendClose ==
    IF ConfOnceRuns(confOnce)
    THEN /\ confOnce' = TRUE
         /\ IF startedCloses > 0
            THEN sentAfterClose' = TRUE /\ rdPc' = "done"
            ELSE rdPc' = "send_started" /\ UNCHANGED sentAfterClose
    ELSE /\ rdPc' = "defer_wait"
         /\ UNCHANGED <<confOnce, sentAfterClose>>

\* reader: scanner.Scan() and the switch on the command, up to the next
\* blocking operation; the child writes only once "start" was written
RdScan(msg) ==
    /\ rdPc = "scan"
    /\ msg # "eof" => Len(readLog) < MaxChildMsgs /\ csPc \notin {"launch", "write"}
    /\ readLog' = Append(readLog, msg)
    /\ confKill' = (confKill \/ msg \in {"newconf_bad", "unknown"})
    /\ CASE msg = "newconf" ->
              /\ rdPc' = "send_output"
              /\ UNCHANGED <<confOnce, sentAfterClose, startedCloses>>
         [] msg = "reloaded" ->
              UNCHANGED <<rdPc, confOnce, sentAfterClose, startedCloses>>
         [] msg = "started" ->
              /\ confOnce' = TRUE
              /\ startedCloses' = IF ConfOnceRuns(confOnce)
                                  THEN startedCloses + 1 ELSE startedCloses
              /\ UNCHANGED <<rdPc, sentAfterClose>>
         [] OTHER ->
              OnceSendClose /\ UNCHANGED startedCloses
    /\ UNCHANGED <<csPc, startedSends, outputClosed, startResult,
                   confReceived>>
    /\ UNCHANGED nonConfSvcVars

\* reader, deferred: the child is killed or waited for; close(c.output)
RdCloseOutput ==
    /\ rdPc = "defer_wait"
    /\ outputClosed' = TRUE
    /\ rdPc' = "done"
    /\ UNCHANGED <<csPc, confOnce, startedSends, startedCloses,
                   sentAfterClose, confKill, startResult, readLog,
                   confReceived>>
    /\ UNCHANGED nonConfSvcVars

\* setupConfiguration: Start returned; an error is reported, else the
\* first configuration is awaited on ch.confChan
SetupAfterStart ==
    /\ csPc = "returned"
    /\ csPc' = IF startResult = "error" THEN "setup_error" ELSE "wait_conf"
    /\ UNCHANGED <<rdPc, confOnce, startedSends, startedCloses,
                   sentAfterClose, confKill, outputClosed, startResult,
                   readLog, confReceived>>
    /\ UNCHANGED nonConfSvcVars

\* setupConfiguration: "ch.conf = <-ch.confChan" receives a configuration;
\* afterwards the Serve loop receives the next ones
RecvConf ==
    /\ csPc \in {"wait_conf", "ready"}
    /\ rdPc = "send_output"
    /\ csPc' = "ready"
    /\ rdPc' = "scan"
    /\ confReceived' = confReceived + 1
    /\ UNCHANGED <<confOnce, startedSends, startedCloses, sentAfterClose,
                   confKill, outputClosed, startResult, readLog>>
    /\ UNCHANGED nonConfSvcVars

\* setupConfiguration: ch.confChan is closed, "<-ch.confChan" gives nil and
\* "ch.conf.Store.Dirname = storeDirname" dereferences it
SetupRecvClosed ==
    /\ csPc = "wait_conf"
    /\ outputClosed
    /\ csPc' = "panic"
    /\ UNCHANGED <<rdPc, confOnce, startedSends, startedCloses,
                   sentAfterClose, confKill, outputClosed, startResult,
                   readLog, confReceived>>
    /\ UNCHANGED nonConfSvcVars

ConfSvcNext ==
    \/ CsLaunchFails
    \/ CsLaunchOk
    \/ \E ok \in BOOLEAN : CsWrite(ok)
    \/ CsRecvClosed
    \/ RdSendStarted
    \/ \E ok \in BOOLEAN : CsStop(ok)
    \/ CsDrainRecv
    \/ CsDrainEnd
    \/ \E msg \in ChildMsgs : RdScan(msg)
    \/ RdCloseOutput
    \/ SetupAfterStart
    \/ RecvConf
    \/ SetupRecvClosed

(***************************************************************************)
(* serveChild: Serve, setupStore's watcher, ShutdownControllers            *)
(***************************************************************************)
Signals == {"SIGHUP", "SIGTERM", "SIGINT"}
Controllers == {"RELP", "Accounting", "Journal", "TCP", "UDP"}
\* signal.Notify channel of Serve: make(chan os.Signal, 10)
SigChanCap == 10
\* the store directory given on the command line, and another one
StoreDirname == "storeDirname"
StoreSections == {StoreDirname, "otherDirname"}
BaseConfigs == [Store : StoreSections, EncryptIPC : BOOLEAN]
NoConf == [Store |-> "", EncryptIPC |-> FALSE]

SupervisorInit0 ==
    /\ supPc = "start"
    /\ shutdownDone = FALSE
    /\ supConf = [Store |-> StoreDirname, EncryptIPC |-> TRUE]
    /\ startConf = supConf
    /\ lastNewConf = NoConf
    /\ confsReceived = 0
    /\ confChanClosed = FALSE
    /\ sigChan = <<>>
    /\ sigNotify = TRUE
    /\ sigChanNil = FALSE
    /\ sigArrived = 0
    /\ termQueued = FALSE
    /\ reloadsAsked = 0
    /\ storeShut = FALSE
    /\ supJournald = FALSE
    /\ ctlReturned = {}
    /\ ctlShut = {}
    /\ storeShutdown = FALSE

\* Serve: "some parameters can't be modified online"
KeepOffline_Not(old, new) == new
KeepOffline(old, new) ==
    [new EXCEPT !.Store = old.Store, !.EncryptIPC = old.EncryptIPC]

\* StopController(typ, true) shuts the controller down; the journald one
\* only where journald is supported
StopControllerShuts_Never(typ, journald) == FALSE
StopControllerShuts(typ, journald) == typ # "Journal" \/ journald

\* utils.Parallel returns when every function given to it has returned
ParallelDone(returned) == returned = Controllers

\* Serve: StartControllers, after signal.Notify
SupStartControllers(ok, journald) ==
    /\ supPc = "start"
    /\ supPc' = IF ok THEN "top" ELSE "failed"
    /\ supJournald' = journald
    /\ UNCHANGED <<shutdownDone, supConf, startConf, lastNewConf,
                   confsReceived, confChanClosed, sigChan, sigNotify,
                   sigChanNil, sigArrived, termQueued, reloadsAsked,
                   storeShut, ctlReturned, ctlShut, storeShutdown>>
    /\ UNCHANGED nonSupervisorVars

\* a signal is sent to the process: the runtime queues it in the channel
\* given to signal.Notify unless that channel is full; an ignored signal is
\* dropped
SignalArrives(sig) ==
    /\ sigArrived < MaxSignals
    /\ supPc \in {"start", "top", "select"}
    /\ sigArrived' = sigArrived + 1
    /\ IF sigNotify /\ Len(sigChan) < SigChanCap
       THEN /\ sigChan' = Append(sigChan, sig)
            /\ termQueued' = (termQueued \/ sig # "SIGHUP")
       ELSE UNCHANGED <<sigChan, termQueued>>
    /\ UNCHANGED <<supPc, shutdownDone, supConf, startConf, lastNewConf,
                   confsReceived, confChanClosed, sigNotify, sigChanNil,
                   reloadsAsked, storeShut, supJournald, ctlReturned,
                   ctlShut, storeShutdown>>
    /\ UNCHANGED nonSupervisorVars

\* the store publishes on ShutdownChan
StorePublishes ==
    /\ ~storeShut
    /\ supPc \in {"start", "top", "select"}
    /\ storeShut' = TRUE
    /\ UNCHANGED <<supPc, shutdownDone, supConf, startConf, lastNewConf,
                   confsReceived, confChanClosed, sigChan, sigNotify,
                   sigChanNil, sigArrived, termQueued, reloadsAsked,
                   supJournald, ctlReturned, ctlShut, storeShutdown>>
    /\ UNCHANGED nonSupervisorVars

\* setupStore's goroutine: <-st.ShutdownChan; ch.shutdown()
StoreWatcher ==
    /\ storeShut
    /\ ~shutdownDone
    /\ shutdownDone' = TRUE
    /\ UNCHANGED <<supPc, supConf, startConf, lastNewConf, confsReceived,
                   confChanClosed, sigChan, sigNotify, sigChanNil,
                   sigArrived, termQueued, reloadsAsked, storeShut,
                   supJournald, ctlReturned, ctlShut, storeShutdown>>
    /\ UNCHANGED nonSupervisorVars

\* the configuration service's reader ends: close(c.output)
ConfServiceEnds ==
    /\ ~confChanClosed
    /\ supPc \in {"start", "top", "select"}
    /\ confChanClosed' = TRUE
    /\ UNCHANGED <<supPc, shutdownDone, supConf, startConf, lastNewConf,
                   confsReceived, sigChan, sigNotify, sigChanNil,
                   sigArrived, termQueued, reloadsAsked, storeShut,
                   supJournald, ctlReturned, ctlShut, storeShutdown>>
    /\ UNCHANGED nonSupervisorVars

\* Serve, first select: return nil once shutdownCtx is done
SupTop ==
    /\ supPc = "top"
    /\ supPc' = IF shutdownDone THEN "returned" ELSE "select"
    /\ UNCHANGED <<shutdownDone, supConf, startConf, lastNewConf,
                   confsReceived, confChanClosed, sigChan, sigNotify,
                   sigChanNil, sigArrived, termQueued, reloadsAsked,
                   storeShut, supJournald, ctlReturned, ctlShut,
                   storeShutdown>>
    /\ UNCHANGED nonSupervisorVars

\* Serve, second select: case <-ch.shutdownCtx.Done(): just loop
SupSelectDone ==
    /\ supPc = "select"
    /\ shutdownDone
    /\ supPc' = "top"
    /\ UNCHANGED <<shutdownDone, supConf, startConf, lastNewConf,
                   confsReceived, confChanClosed, sigChan, sigNotify,
                   sigChanNil, sigArrived, termQueued, reloadsAsked,
                   storeShut, supJournald, ctlReturned, ctlShut,
                   storeShutdown>>
    /\ UNCHANGED nonSupervisorVars

\* Serve, second select: a configuration is received; Reload may fail
SupNewConf(newConf, reloadOk) ==
    /\ supPc = "select"
    /\ ~confChanClosed
    /\ confsReceived < MaxNewConfs
    /\ confsReceived' = confsReceived + 1
    /\ lastNewConf' = newConf
    /\ supConf' = KeepOffline(supConf, newConf)
    /\ shutdownDone' = (shutdownDone \/ ~reloadOk)
    /\ supPc' = "top"
    /\ UNCHANGED <<startConf, confChanClosed, sigChan, sigNotify,
                   sigChanNil, sigArrived, termQueued, reloadsAsked,
                   storeShut, supJournald, ctlReturned, ctlShut,
                   storeShutdown>>
    /\ UNCHANGED nonSupervisorVars

\* Serve, second select: the configuration channel is closed
SupRecvNil ==
    /\ supPc = "select"
    /\ confChanClosed
    /\ shutdownDone' = TRUE
    /\ supPc' = "top"
    /\ UNCHANGED <<supConf, startConf, lastNewConf, confsReceived,
                   confChanClosed, sigChan, sigNotify, sigChanNil,
                   sigArrived, termQueued, reloadsAsked, storeShut,
                   supJournald, ctlReturned, ctlShut, storeShutdown>>
    /\ UNCHANGED nonSupervisorVars

\* Serve, second select: sig := <-sigChan.  SIGHUP stops the notification
\* and, unless shutting down, asks for a reload and notifies a new channel;
\* SIGTERM and SIGINT stop the notification and call ch.shutdown()
SupSignal ==
    /\ supPc = "select"
    /\ ~sigChanNil
    /\ sigChan # <<>>
    /\ IF Head(sigChan) = "SIGHUP"
       THEN /\ IF shutdownDone
               THEN /\ sigNotify' = FALSE
                    /\ sigChan' = Tail(sigChan)
                    /\ UNCHANGED reloadsAsked
               ELSE /\ reloadsAsked' = reloadsAsked + 1
                    /\ sigChan' = <<>>
                    /\ sigNotify' = TRUE
            /\ UNCHANGED <<sigChanNil, shutdownDone>>
       ELSE /\ sigNotify' = FALSE
            /\ sigChanNil' = TRUE
            /\ shutdownDone' = TRUE
            /\ UNCHANGED <<sigChan, reloadsAsked>>
    /\ supPc' = "top"
    /\ UNCHANGED <<supConf, startConf, lastNewConf, confsReceived,
                   confChanClosed, sigArrived, termQueued, storeShut,
                   supJournald, ctlReturned, ctlShut, storeShutdown>>
    /\ UNCHANGED nonSupervisorVars

\* ShutdownControllers: one function given to utils.Parallel runs
\* StopController(typ, true) and returns
CtlShutdown(typ) ==
    /\ supPc \in {"returned", "failed"}
    /\ typ \notin ctlReturned
    /\ ctlReturned' = ctlReturned \cup {typ}
    /\ ctlShut' = IF StopControllerShuts(typ, supJournald)
                  THEN ctlShut \cup {typ} ELSE ctlShut
    /\ UNCHANGED <<supPc, shutdownDone, supConf, startConf, lastNewConf,
                   confsReceived, confChanClosed, sigChan, sigNotify,
                   sigChanNil, sigArrived, termQueued, reloadsAsked,
                   storeShut, supJournald, storeShutdown>>
    /\ UNCHANGED nonSupervisorVars

\* ShutdownControllers, after utils.Parallel: ch.globalCancel() and
\* ch.store.Shutdown
StoreShutdown ==
    /\ supPc \in {"returned", "failed"}
    /\ ParallelDone(ctlReturned)
    /\ storeShutdown' = TRUE
    /\ shutdownDone' = TRUE
    /\ supPc' = "done"
    /\ UNCHANGED <<supConf, startConf, lastNewConf, confsReceived,
                   confChanClosed, sigChan, sigNotify, sigChanNil,
                   sigArrived, termQueued, reloadsAsked, storeShut,
                   supJournald, ctlReturned, ctlShut>>
    /\ UNCHANGED nonSupervisorVars

SupervisorNext ==
    \/ \E ok \in BOOLEAN, journald \in BOOLEAN : SupStartControllers(ok, journald)
    \/ \E sig \in Signals : SignalArrives(sig)
    \/ StorePublishes
    \/ StoreWatcher
    \/ ConfServiceEnds
    \/ SupTop
    \/ SupSelectDone
    \/ \E newConf \in BaseConfigs, reloadOk \in BOOLEAN : SupNewConf(newConf, reloadOk)
    \/ SupRecvNil
    \/ SupSignal
    \/ \E typ \in Controllers : CtlShutdown(typ)
    \/ StoreShutdown

(***************************************************************************)
(* DirectRelpServiceImpl.pushOne                                           *)
(***************************************************************************)
FilterResults == {"DROPPED", "REJECTED", "PASS", "OTHER"}

PushInit0 == pushLog = <<>>

\* pushOne: the point where it returns, whether it called
\* s.forwarder.ForwardFail and whether it sent to s.producer.Input()
PushOutcome(haveEnv, haveConfig, topicEmpty, filterErr, filterResult, jsonErr) ==
    IF ~haveEnv /\ ~haveConfig
    THEN [path |-> "noconfig", fail |-> FALSE, submit |-> FALSE]
    ELSE IF topicEmpty
    THEN [path |-> "notopic", fail |-> TRUE, submit |-> FALSE]
    ELSE IF filterErr
    THEN [path |-> "filtererror", fail |-> FALSE, submit |-> FALSE]
    ELSE IF filterResult # "PASS"
    THEN [path |-> filterResult, fail |-> TRUE, submit |-> FALSE]
    ELSE IF jsonErr
    THEN [path |-> "jsonerror", fail |-> TRUE, submit |-> FALSE]
    ELSE [path |-> "input", fail |-> FALSE, submit |-> TRUE]

\* push2kafka: one message taken from the parsed queue and given to pushOne
PushOne(haveEnv, haveConfig, topicEmpty, filterErr, filterResult, jsonErr) ==
    /\ Len(pushLog) < MaxPushed
    /\ pushLog' = Append(pushLog,
                         PushOutcome(haveEnv, haveConfig, topicEmpty,
                                     filterErr, filterResult, jsonErr))
    /\ UNCHANGED nonPushVars

PushNext ==
    \E haveEnv \in BOOLEAN, haveConfig \in BOOLEAN, topicEmpty \in BOOLEAN,
       filterErr \in BOOLEAN, filterResult \in FilterResults,
       jsonErr \in BOOLEAN :
        PushOne(haveEnv, haveConfig, topicEmpty, filterErr, filterResult,
                jsonErr)

(***************************************************************************)
(* IntQueue (utils/queue/int.go): several producers, one consumer          *)
(***************************************************************************)
IqProducers == {"a", "b"}
\* node 0 is the stub made by NewIntQueue; a Put takes a new node
IqNodes == 0..MaxIntPuts
\* the nil pointer
NilNode == -1

IntQueueInit0 ==
    /\ iqHead = 0
    /\ iqTail = 0
    /\ iqDisposed = FALSE
    /\ iqNext = [n \in IqNodes |-> NilNode]
    /\ iqUid = [n \in IqNodes |-> 0]
    /\ iqPc = [p \in IqProducers |-> "idle"]
    /\ iqNode = [p \in IqProducers |-> NilNode]
    /\ iqPrev = [p \in IqProducers |-> NilNode]
    /\ iqAlloc = 0
    /\ iqReturned = {}
    /\ iqOrder = <<>>
    /\ iqGot = <<>>
    /\ iqHasMissed = FALSE
    /\ iqGetMissed = FALSE

\* values put (their Put returned nil) and not yet given to the consumer
IqPending == iqReturned \ {iqGot[i] : i \in 1..Len(iqGot)}

\* Has: q.tail.next != nil
Has == iqNext[iqTail] # NilNode

\* Put: the Disposed test, then n.uid = uid; n.next = nil on a new node
IqPutCall(p) ==
    /\ iqPc[p] = "idle"
    /\ iqAlloc < MaxIntPuts
    /\ IF iqDisposed
       THEN UNCHANGED <<iqPc, iqNode, iqAlloc, iqUid, iqNext>>
       ELSE /\ iqAlloc' = iqAlloc + 1
            /\ iqNode' = [iqNode EXCEPT ![p] = iqAlloc + 1]
            /\ iqUid' = [iqUid EXCEPT ![iqAlloc + 1] = iqAlloc + 1]
            /\ iqNext' = [iqNext EXCEPT ![iqAlloc + 1] = NilNode]
            /\ iqPc' = [iqPc EXCEPT ![p] = "swap"]
    /\ UNCHANGED <<iqHead, iqTail, iqDisposed, iqPrev, iqReturned, iqOrder,
                   iqGot, iqHasMissed, iqGetMissed>>
    /\ UNCHANGED nonIntQueueVars

\* Put: atomic.SwapPointer(&q.head, n)
IqPutSwap(p) ==
    /\ iqPc[p] = "swap"
    /\ iqPrev' = [iqPrev EXCEPT ![p] = iqHead]
    /\ iqHead' = iqNode[p]
    /\ iqOrder' = Append(iqOrder, iqUid[iqNode[p]])
    /\ iqPc' = [iqPc EXCEPT ![p] = "link"]
    /\ UNCHANGED <<iqTail, iqDisposed, iqNext, iqUid, iqNode, iqAlloc,
                   iqReturned, iqGot, iqHasMissed, iqGetMissed>>
    /\ UNCHANGED nonIntQueueVars

\* Put: (previous head).next = n; return nil
IqPutLink(p) ==
    /\ iqPc[p] = "link"
    /\ iqNext' = [iqNext EXCEPT ![iqPrev[p]] = iqNode[p]]
    /\ iqReturned' = iqReturned \cup {iqUid[iqNode[p]]}
    /\ iqPc' = [iqPc EXCEPT ![p] = "idle"]
    /\ iqNode' = [iqNode EXCEPT ![p] = NilNode]
    /\ iqPrev' = [iqPrev EXCEPT ![p] = NilNode]
    /\ UNCHANGED <<iqHead, iqTail, iqDisposed, iqUid, iqAlloc, iqOrder,
                   iqGot, iqHasMissed, iqGetMissed>>
    /\ UNCHANGED nonIntQueueVars

\* the consumer calls Has()
IqHas ==
    /\ iqHasMissed' = (iqHasMissed \/ (~Has /\ IqPending # {}))
    /\ UNCHANGED <<iqHead, iqTail, iqDisposed, iqNext, iqUid, iqPc, iqNode,
                   iqPrev, iqAlloc, iqReturned, iqOrder, iqGot, iqGetMissed>>
    /\ UNCHANGED nonIntQueueVars

\* the consumer calls Get(): ErrDisposed, or the value of tail.next with
\* the tail moved to it, or (-1, nil)
IqGet ==
    /\ IF iqDisposed
       THEN UNCHANGED <<iqTail, iqGot, iqGetMissed>>
       ELSE IF iqNext[iqTail] # NilNode
       THEN /\ iqTail' = iqNext[iqTail]
            /\ iqGot' = Append(iqGot, iqUid[iqNext[iqTail]])
            /\ UNCHANGED iqGetMissed
       ELSE /\ iqGetMissed' = (iqGetMissed \/ IqPending # {})
            /\ UNCHANGED <<iqTail, iqGot>>
    /\ UNCHANGED <<iqHead, iqDisposed, iqNext, iqUid, iqPc, iqNode, iqPrev,
                   iqAlloc, iqReturned, iqOrder, iqHasMissed>>
    /\ UNCHANGED nonIntQueueVars

\* Dispose()
IqDispose ==
    /\ ~iqDisposed
    /\ iqDisposed' = TRUE
    /\ UNCHANGED <<iqHead, iqTail, iqNext, iqUid, iqPc, iqNode, iqPrev,
                   iqAlloc, iqReturned, iqOrder, iqGot, iqHasMissed,
                   iqGetMissed>>
    /\ UNCHANGED nonIntQueueVars

IntQueueNext ==
    \/ \E p \in IqProducers : IqPutCall(p)
    \/ \E p \in IqProducers : IqPutSwap(p)
    \/ \E p \in IqProducers : IqPutLink(p)
    \/ IqHas
    \/ IqGet
    \/ IqDispose

(***************************************************************************)
(* The configuration child: start(), reload and writeNewConf               *)
(***************************************************************************)
\* the loads made by start(): each has its context and its updated channel
Gens == 1..MaxLoads
\* "var cancel context.CancelFunc" before the first load
NoGen == 0

ReloadInit0 ==
    /\ rlBuild = "none"
    /\ rlPc = "off"
    /\ rlCmd = "none"
    /\ rlLoads = 0
    /\ rlCancel = NoGen
    /\ rlCancelled = {}
    /\ rlKind = [g \in Gens |-> "none"]
    /\ rlUpdated = [g \in Gens |-> 0]
    /\ rlUpdates = 0
    /\ wtPc = [g \in Gens |-> "none"]
    /\ wtMarshalOk = [g \in Gens |-> FALSE]
    /\ rlOut = <<>>

\* WConf: one frame written to stdout under stdoutMu
WConf(out, header, gen, by) ==
    Append(out, [header |-> header, gen |-> gen, by |-> by])

\* the child is launched with confdir set; scanner.Scan() has not returned
RlLaunch(build) ==
    /\ rlPc = "off"
    /\ rlBuild' = build
    /\ rlPc' = "scan"
    /\ UNCHANGED <<rlCmd, rlLoads, rlCancel, rlCancelled, rlKind, rlUpdated,
                   rlUpdates, wtPc, wtMarshalOk, rlOut>>
    /\ UNCHANGED nonReloadVars

\* case "start" and case "reload" up to the return of conf.InitLoad in
\* start(); when InitLoad fails, "start" writes starterror and returns and
\* "reload" logs a warning
RlInitLoad(cmd, loads) ==
    /\ rlPc = "scan"
    /\ rlLoads < MaxLoads
    /\ rlCmd' = cmd
    /\ IF loads
         THEN /\ rlLoads' = rlLoads + 1
              /\ rlKind' = [rlKind EXCEPT ![rlLoads + 1] = cmd]
              /\ rlPc' = "started"
              /\ UNCHANGED rlOut
         ELSE /\ rlPc' = IF cmd = "start" THEN "exited" ELSE "scan"
              /\ rlOut' = IF cmd = "start"
                            THEN WConf(rlOut, "starterror", NoGen, "main")
                            ELSE rlOut
              /\ UNCHANGED <<rlLoads, rlKind>>
    /\ UNCHANGED <<rlBuild, rlCancel, rlCancelled, rlUpdated, rlUpdates, wtPc,
                   wtMarshalOk>>
    /\ UNCHANGED nonReloadVars

\* start(): WConf("started", NOW)
RlWriteStarted ==
    /\ rlPc = "started"
    /\ rlOut' = WConf(rlOut, "started", rlLoads, "main")
    /\ rlPc' = "newconf"
    /\ UNCHANGED <<rlBuild, rlCmd, rlLoads, rlCancel, rlCancelled, rlKind,
                   rlUpdated, rlUpdates, wtPc, wtMarshalOk>>
    /\ UNCHANGED nonReloadVars

\* start(): WConf("newconf", confb), the snapshot of the new load
RlWriteNewconf ==
    /\ rlPc = "newconf"
    /\ rlOut' = WConf(rlOut, "newconf", rlLoads, "main")
    /\ rlPc' = "go"
    /\ UNCHANGED <<rlBuild, rlCmd, rlLoads, rlCancel, rlCancelled, rlKind,
                   rlUpdated, rlUpdates, wtPc, wtMarshalOk>>
    /\ UNCHANGED nonReloadVars

\* start(): "go writeNewConf(ctx, updated, logger)" and return cancel; the
\* "start" command keeps it in cancel
RlGoWriteNewConf ==
    /\ rlPc = "go"
    /\ wtPc' = [wtPc EXCEPT ![rlLoads] = "select"]
    /\ IF rlCmd = "start"
         THEN /\ rlCancel' = rlLoads
              /\ rlPc' = "scan"
         ELSE /\ rlPc' = "cancel"
              /\ UNCHANGED rlCancel
    /\ UNCHANGED <<rlBuild, rlCmd, rlLoads, rlCancelled, rlKind, rlUpdated,
                   rlUpdates, wtMarshalOk, rlOut>>
    /\ UNCHANGED nonReloadVars

\* case "reload", err == nil: "if cancel != nil { cancel() }" and
\* "cancel = newcancel"
RlCancelOld ==
    /\ rlPc = "cancel"
    /\ rlCancelled' = IF rlCancel # NoGen THEN rlCancelled \cup {rlCancel}
                      ELSE rlCancelled
    /\ rlCancel' = rlLoads
    /\ rlPc' = "reloaded"
    /\ UNCHANGED <<rlBuild, rlCmd, rlLoads, rlKind, rlUpdated, rlUpdates,
                   wtPc, wtMarshalOk, rlOut>>
    /\ UNCHANGED nonReloadVars

\* case "reload": WConf("reloaded", NOW)
RlWriteReloaded ==
    /\ rlPc = "reloaded"
    /\ rlOut' = WConf(rlOut, "reloaded", rlLoads, "main")
    /\ rlPc' = "scan"
    /\ UNCHANGED <<rlBuild, rlCmd, rlLoads, rlCancel, rlCancelled, rlKind,
                   rlUpdated, rlUpdates, wtPc, wtMarshalOk>>
    /\ UNCHANGED nonReloadVars

\* case "stop": cancel the current load and return
RlStop ==
    /\ rlPc = "scan"
    /\ rlCancelled' = IF rlCancel # NoGen THEN rlCancelled \cup {rlCancel}
                      ELSE rlCancelled
    /\ rlPc' = "exited"
    /\ UNCHANGED <<rlBuild, rlCmd, rlLoads, rlCancel, rlKind, rlUpdated,
                   rlUpdates, wtPc, wtMarshalOk, rlOut>>
    /\ UNCHANGED nonReloadVars

\* the load g, not cancelled, has a changed configuration to send on its
\* updated channel
ConfUpdated(g) ==
    /\ g <= rlLoads
    /\ g \notin rlCancelled
    /\ rlUpdated[g] = 0
    /\ rlUpdates < MaxUpdates
    /\ rlUpdates' = rlUpdates + 1
    /\ rlUpdated' = [rlUpdated EXCEPT ![g] = 1]
    /\ UNCHANGED <<rlBuild, rlPc, rlCmd, rlLoads, rlCancel, rlCancelled,
                   rlKind, wtPc, wtMarshalOk, rlOut>>
    /\ UNCHANGED nonReloadVars

\* writeNewConf: "case <-ctx.Done(): return"
WriteNewConfDone(g) ==
    /\ wtPc[g] = "select"
    /\ g \in rlCancelled
    /\ wtPc' = [wtPc EXCEPT ![g] = "returned"]
    /\ UNCHANGED <<rlBuild, rlPc, rlCmd, rlLoads, rlCancel, rlCancelled,
                   rlKind, rlUpdated, rlUpdates, wtMarshalOk, rlOut>>
    /\ UNCHANGED nonReloadVars

\* writeNewConf: "case newconf, more := <-updated" with more true, and
\* json.Marshal(newconf)
WriteNewConfRecv(g, marshalOk) ==
    /\ wtPc[g] = "select"
    /\ rlUpdated[g] = 1
    /\ rlUpdated' = [rlUpdated EXCEPT ![g] = 0]
    /\ wtMarshalOk' = [wtMarshalOk EXCEPT ![g] = marshalOk]
    /\ wtPc' = [wtPc EXCEPT ![g] = "marshaled"]
    /\ UNCHANGED <<rlBuild, rlPc, rlCmd, rlLoads, rlCancel, rlCancelled,
                   rlKind, rlUpdates, rlOut>>
    /\ UNCHANGED nonReloadVars

\* writeNewConf in part_002 tests the context again before it writes
TestsDoneBeforeWrite(build) == build = "part_002"

\* writeNewConf: WConf("newconf", confb) when the marshaling succeeded
WriteNewConfWrite(g) ==
    /\ wtPc[g] = "marshaled"
    /\ IF ~wtMarshalOk[g]
         THEN /\ wtPc' = [wtPc EXCEPT ![g] = "select"]
              /\ UNCHANGED rlOut
         ELSE IF TestsDoneBeforeWrite(rlBuild) /\ g \in rlCancelled
         THEN /\ wtPc' = [wtPc EXCEPT ![g] = "returned"]
              /\ UNCHANGED rlOut
         ELSE /\ rlOut' = WConf(rlOut, "newconf", g, "writeNewConf")
              /\ wtPc' = [wtPc EXCEPT ![g] = "select"]
    /\ UNCHANGED <<rlBuild, rlPc, rlCmd, rlLoads, rlCancel, rlCancelled,
                   rlKind, rlUpdated, rlUpdates, wtMarshalOk>>
    /\ UNCHANGED nonReloadVars

ReloadNext ==
    \/ \E build \in ProvBuilds : RlLaunch(build)
    \/ \E cmd \in {"start", "reload"}, loads \in BOOLEAN : RlInitLoad(cmd, loads)
    \/ RlWriteStarted
    \/ RlWriteNewconf
    \/ RlGoWriteNewConf
    \/ RlCancelOld
    \/ RlWriteReloaded
    \/ RlStop
    \/ \E g \in Gens : ConfUpdated(g)
    \/ \E g \in Gens : WriteNewConfDone(g)
    \/ \E g \in Gens, marshalOk \in BOOLEAN : WriteNewConfRecv(g, marshalOk)
    \/ \E g \in Gens : WriteNewConfWrite(g)

(***************************************************************************)
(* Specifications                                                          *)
(***************************************************************************)
\* every subsystem in its state after construction
AllInit ==
    /\ RingInit0
    /\ RelpInit0
    /\ SvcInit0
    /\ HttpInit0
    /\ TcpInit0
    /\ FatalInit0
    /\ BinderInit0
    /\ SplitInit0
    /\ SourceInit0
    /\ ProviderInit0
    /\ ConfSvcInit0
    /\ SupervisorInit0
    /\ PushInit0
    /\ IntQueueInit0
    /\ ReloadInit0

RingInit == AllInit

RingSpec == RingInit /\ [][RingNext]_vars


\* Blocking callers only (Put and Get, i.e. Poll(0)), under a scheduler that
\* runs every goroutine that can take a step
WaiterStep(p) ==
    \/ PutCheck(p) \/ PutLoad(p) \/ PutSwitch(p) \/ PutStore(p)
    \/ PutPublish(p)
    \/ PollLoad(p) \/ PollSwitch(p) \/ PollCheck(p)
    \/ PollRead(p) \/ PollPublish(p)

WaiterNext ==
    \/ \E p \in Procs : Put(p) \/ Get(p)
    \/ \E p \in Procs : WaiterStep(p)
    \/ Dispose

FairRingSpec ==
    RingInit /\ [][WaiterNext]_vars /\ \A p \in Procs : WF_vars(WaiterStep(p))


RelpInit == AllInit

RelpSpec == RelpInit /\ [][RelpNext]_vars

\* the response writer is a goroutine of its own and keeps being scheduled
FairRelpSpec == RelpSpec /\ WF_vars(HRStep)

SvcInit == AllInit

SvcSpec == SvcInit /\ [][SvcNext]_vars

\* every goroutine of the service that can take a step eventually does
FairSvcSpec == SvcSpec /\ WF_vars(SvcStep)

HttpInit == AllInit

HttpSpec == HttpInit /\ [][HttpNext]_vars

TcpInit == AllInit

TcpSpec == TcpInit /\ [][TcpNext]_vars

FatalInit == AllInit

FatalSpec == FatalInit /\ [][FatalNext]_vars

\* every goroutine that can take a step eventually does
FairFatalSpec == FatalSpec /\ WF_vars(FatalStep)

BinderInit == AllInit

BinderSpec == BinderInit /\ [][BinderNext]_vars

\* every buffer up to MaxBuf bytes, at end of input or not
SplitInputs ==
    /\ splitData \in Buffers
    /\ splitAtEOF \in BOOLEAN
    /\ splitPc = "call"
    /\ splitRet = Ret(0, NoToken, "nil")

SplitInit ==
    /\ RingInit0
    /\ RelpInit0
    /\ SvcInit0
    /\ HttpInit0
    /\ TcpInit0
    /\ FatalInit0
    /\ BinderInit0
    /\ SplitInputs
    /\ SourceInit0
    /\ ProviderInit0
    /\ ConfSvcInit0
    /\ SupervisorInit0
    /\ PushInit0
    /\ IntQueueInit0
    /\ ReloadInit0

SplitSpec == SplitInit /\ [][SplitNext]_vars

\* a client sends one or two frames, each of 1 to MaxMessageSize + 1 bytes,
\* to a source configured with either framing
SourceInputs ==
    /\ sentFrames \in Streams
    /\ lineFraming \in BOOLEAN
    /\ srcWire = WireOf(sentFrames)
    /\ scanBuf = <<>>
    /\ scanStart = 0
    /\ scanErr = "nil"
    /\ hpc = "scan"
    /\ connEnd = "none"
    /\ rawQueue = <<>>
    /\ rawDisposed = FALSE
    /\ incomingMsgs = 0
    /\ ppc = [w \in SourceParsers |-> "get"]
    /\ praw = [w \in SourceParsers |-> NoRaw]
    /\ ParsingErrorCounter = 0
    /\ decodeFailed = <<>>
    /\ stashed = <<>>
    /\ srcFatal = FALSE
    /\ pdone = [w \in SourceParsers |-> <<>>]

SourceInit ==
    /\ RingInit0
    /\ RelpInit0
    /\ SvcInit0
    /\ HttpInit0
    /\ TcpInit0
    /\ FatalInit0
    /\ BinderInit0
    /\ SplitInit0
    /\ SourceInputs
    /\ ProviderInit0
    /\ ConfSvcInit0
    /\ SupervisorInit0
    /\ PushInit0
    /\ IntQueueInit0
    /\ ReloadInit0

SourceSpec == SourceInit /\ [][SourceNext]_vars

ProviderInit == AllInit

ProviderSpec == ProviderInit /\ [][ProviderNext]_vars

ConfSvcInit == AllInit

ConfSvcSpec == ConfSvcInit /\ [][ConfSvcNext]_vars

\* every goroutine that can take a step eventually takes one
FairConfSvcSpec == ConfSvcSpec /\ WF_vars(ConfSvcNext)

SupervisorInit == AllInit

SupervisorSpec == SupervisorInit /\ [][SupervisorNext]_vars

\* the goroutines of the supervisor keep running; signals, store failures,
\* new configurations and the end of the configuration service may or may
\* not happen
FairSupervisorSpec ==
    /\ SupervisorSpec
    /\ WF_vars(StoreWatcher)
    /\ WF_vars(SupTop)
    /\ WF_vars(SupSelectDone)
    /\ WF_vars(SupRecvNil)
    /\ WF_vars(SupSignal)
    /\ WF_vars(\E typ \in Controllers : CtlShutdown(typ))
    /\ WF_vars(StoreShutdown)

PushInit == AllInit

PushSpec == PushInit /\ [][PushNext]_vars

IntQueueInit == AllInit

IntQueueSpec == IntQueueInit /\ [][IntQueueNext]_vars

ReloadInit == AllInit

ReloadSpec == ReloadInit /\ [][ReloadNext]_vars

(***************************************************************************)
(* Properties of RawTCPRing                                                *)
(***************************************************************************)

\* C3: in every reachable state, under any interleaving of Put, Offer, Get,
\* Poll and Dispose, dequeue <= queue and queue - dequeue <= Cap(): the
\* length computed from the two counters neither underflows nor exceeds
\* the capacity.
C3_LenWithinCap == dequeue <= queue /\ queue - dequeue <= Cap

\* C3: the ring is full again after slots have been handed out and reused
C3_Witness == queue - dequeue = Cap /\ dequeue > 0 /\ queue > Cap

\* C4: the ring is a thread-safe bounded FIFO: the item handed out for
\* dequeue position k is the item of the producer that claimed enqueue
\* position k (so no item is returned twice, none is invented, and the
\* order is that of the claimed positions), and a producer writes only
\* into a slot whose previous item has been read.
C4_BoundedFifo ==
    /\ \A g \in got : g[1] < Len(enq) /\ g[2] = enq[g[1] + 1]
    /\ \A g, h \in got : g[1] = h[1] => g = h
    /\ \A p \in Procs :
         pc[p] = "put_store" => nodes[Slot(pos[p])].data = NoItem

\* C4: two items were handed out, the second from a reused slot
C4_Witness ==
    /\ \E g \in got : g[1] >= Cap /\ g[2] = enq[g[1] + 1]
    /\ \E p \in Procs : pc[p] = "idle" /\ res[p] = "ok" /\ ret[p] # NoItem

C6_DisposedCallsFail ==
    \A p \in Procs :
        (onDisposed[p] /\ pc[p] = "idle" /\ res[p] # "none")
            => res[p] \in {"ErrDisposed", "ErrTimeout"}

\* C7: an Offer on a non-disposed ring returns (false, nil) only when the
\* ring is full: at some instant of the call Len = Cap held.
C7_OfferFailsOnlyWhenFull ==
    \A p \in Procs : (pc[p] = "idle" /\ res[p] = "full") => sawFull[p]

\* the Put of this item took its slot and has returned (true, nil)
PutReturnedOk(it) ==
    /\ \E i \in 1..Len(enq) : enq[i] = it
    /\ ~\E p \in Procs : pc[p] \in {"put_store", "put_pub"} /\ item[p] = it

\* C29: once a consumer has been told ErrDisposed, every item whose Put
\* returned without error has been returned by a Get.
C29_NoAcceptedItemLost ==
    toldDisposed =>
        \A it \in 1..MaxPuts :
            PutReturnedOk(it) => \E g \in got : g[2] = it


(***************************************************************************)
(* Properties of the direct-RELP response writer                           *)
(***************************************************************************)
WrittenTxnrs == [i \in 1..Len(written) |-> written[i].txnr]

IsPrefix(a, b) == Len(a) <= Len(b) /\ \A i \in 1..Len(a) : a[i] = b[i]

\* C1: on one connection, for any order of arrival of the verdicts, an rsp
\* frame is written only for the txnr that is next_to_commit at that moment
\* (it is still the head of the queue when Commit is about to run), so the
\* txnrs written are strictly increasing and in the order the client sent
\* its frames.
C1_OrderedResponses ==
    /\ hrpc = "commit" =>
         /\ written # <<>>
         /\ fwdComm # <<>>
         /\ written[Len(written)].txnr = Head(fwdComm)
    /\ \A i, j \in 1..Len(written) : i < j => written[i].txnr < written[j].txnr
    /\ IsPrefix(WrittenTxnrs, received)

\* C1: verdicts arrived in another order than the frames, and two frames
\* or more have been answered, one of them with 500 KO
C1_Witness ==
    /\ early # {}
    /\ Len(written) >= 2
    /\ \E i \in 1..Len(written) : written[i].code = 500

HasVerdict(t) == t \in verdicted

Answered(t) == t \in Range(WrittenTxnrs)

\* C2: when the verdict of a later txnr arrives before the verdict of an
\* earlier pending one, nothing is written for the later one until the
\* earlier one has been answered; and once every txnr up to t has its
\* verdict, t is eventually answered, unless the connection stops being
\* writable or the connection is removed from the forwarder.
C2_LaterWaitsForEarlier ==
    /\ [](\A i \in 1..Len(written) : \A t \in Range(received) :
            t < written[i].txnr => \E j \in 1..(i - 1) : written[j].txnr = t)
    /\ \A t \in Txnrs :
         (t \in Range(received)
            /\ \A u \in Range(received) : u <= t => HasVerdict(u))
           ~> (Answered(t) \/ fwdRemoved \/ conn # "ok")

\* C2: the verdict for txnr 2 was forwarded first, then the one for txnr 1,
\* and the responses were written for 1, then for 2
C2_Witness ==
    /\ 2 \in early /\ 1 \in verdicted
    /\ Len(written) >= 2 /\ written[1].txnr = 1 /\ written[2].txnr = 2

(***************************************************************************)
(* Properties of the direct-RELP service                                   *)
(***************************************************************************)

\* C8: when the Kafka producer reports a fatal error while the service is
\* Started, handleKafkaResponses calls StopAndWait and the status
\* eventually becomes Waiting (unless a Shutdown is requested meanwhile)
C8_FatalLeadsToWaiting ==
    fatalWhileStarted ~> (status = "Waiting" \/ spc["ext"] # "idle")

(***************************************************************************)
(* Properties of the HTTP destination                                      *)
(***************************************************************************)

\* the message got a response with a 4xx status code
ClientError(u) ==
    /\ httpResult[u].cause = "response"
    /\ 400 <= httpResult[u].code /\ httpResult[u].code < 500

\* C9 (as stated): a message whose HTTP response has a 4xx status code is
\* reported to the store with permerr, not with nack
C9_ClientErrorIsPermerr ==
    \A u \in HttpUids :
        ClientError(u) =>
            httpReports[u].permerr = 1 /\ httpReports[u].nack = 0

\* C9 (amended): a message whose HTTP response has a 4xx status code is
\* reported with nack exactly once, never with permerr or ack, and the
\* destination's fatal channel is closed; permerr is reported only for a
\* message whose URL template, encoding or request construction failed
C9_ClientErrorIsNacked ==
    /\ \A u \in HttpUids :
          ClientError(u) =>
              /\ httpReports[u] = [ack |-> 0, nack |-> 1, permerr |-> 0]
              /\ httpFatal = 1
    /\ \A u \in HttpUids :
          httpReports[u].permerr > 0 =>
              httpResult[u].cause \in {"template", "encoding", "request"}

\* a 404 answer was nacked, and another message was reported permerr after
\* an encoding error
C9_Witness ==
    /\ \E u \in HttpUids :
          /\ httpResult[u] = [cause |-> "response", code |-> 404]
          /\ httpReports[u].nack = 1
    /\ \E u \in HttpUids :
          /\ httpResult[u].cause = "encoding"
          /\ httpReports[u].permerr = 1

(***************************************************************************)
(* Properties of the TCP destination                                       *)
(***************************************************************************)

\* C10: once the destination is closed, every message whose write to the
\* remote succeeded has been reported to the store, with ack or with nack
C10_WrittenAreReported ==
    tcpClosed =>
        \A u \in tcpWritten :
            tcpReports[u].ack + tcpReports[u].nack >= 1

(***************************************************************************)
(* Properties of the fatal sentinel and the rebind timer                   *)
(***************************************************************************)

\* C11: however many times and from however many goroutines dofatal is
\* invoked, the fatal channel is closed at most once and the fatal counter
\* is incremented once per close; as soon as one dofatal call has returned
\* the channel has been closed exactly once
C11_CloseOnce ==
    /\ fatalCloses <= 1
    /\ fatalCounter = fatalCloses
    /\ (\E g \in FatalCallers : freturned[g] > 0) => fatalCloses = 1

\* dofatal has returned in three different goroutines, twice in one of
\* them, and the channel was closed once
C11_Witness ==
    /\ \A g \in FatalCallers : freturned[g] > 0
    /\ \E g \in FatalSenders : freturned[g] = MaxFatalCalls
    /\ fatalCloses = 1

\* C12 (as stated): the rebind goroutine calls dofatal only for a
\* destination created with rebind > 0, and never when the store's context
\* was cancelled before the rebind period elapsed
C12_CancelledFirstNeverFires ==
    /\ rebindFatal => rebindPeriod > 0
    /\ cancelledFirst => ~rebindFatal

\* C12 (amended): the rebind goroutine calls dofatal only when rebind > 0
\* and the period has elapsed; a goroutine that took the ctx.Done case never
\* calls dofatal; once the period has elapsed the goroutine ends, and unless
\* the context is cancelled the fatal channel is then closed; when both the
\* cancellation and the expiry are pending the select may take either
C12_RebindTimer ==
    /\ [](rebindFatal => rebindPeriod > 0 /\ timerElapsed)
    /\ [](tookCtxDone => ctxDone /\ ~rebindFatal)
    /\ [](fpc["rebind"] = "exit" => tookCtxDone \/ fatalCloses = 1)
    /\ (timerElapsed /\ ~ctxDone) ~> (fatalCloses = 1 \/ ctxDone)
    /\ timerElapsed ~> (fpc["rebind"] = "exit")

\* the period elapsed with no cancellation and no send error, and the rebind
\* goroutine closed the fatal channel
C12_Witness ==
    /\ rebindFatal
    /\ fatalCloses = 1
    /\ ~ctxDone
    /\ \A g \in FatalSenders : fcalls[g] = 0

(***************************************************************************)
(* Properties of the binder                                                *)
(***************************************************************************)

\* the connection is in one of the manager's maps and has not been closed
Retained(u) == u \in connections \cup packetconnections /\ conns[u].open

\* C13 (as stated): every connection announced with newconn stays
\* registered and open until a closeconn naming its uid, a closeconn with
\* empty uid or a reset is processed; nothing else closes or forgets it
C13_HandedOutRetained ==
    \A u \in handed :
        \/ Retained(u)
        \/ closeCause[u] = "closeconn" /\ u \in closeNamed
        \/ closeCause[u] = "all"

\* C13 (amended): every connection announced with newconn stays registered
\* and open until a closeconn naming its uid, a closeconn with empty uid or
\* a reset is processed, or until the binder terminates (byebye or end of
\* input), when the manager closes the packet connections it still holds;
\* stoplisten, listen and accept errors close no announced connection
C13_HandedOutRetainedWhileRunning ==
    \A u \in handed :
        \/ Retained(u)
        \/ /\ closeCause[u] = "closeconn"
           /\ u \in closeNamed
           /\ u \notin connections \cup packetconnections
        \/ /\ closeCause[u] = "all"
           /\ u \notin connections \cup packetconnections
        \/ /\ closeCause[u] = "ctx"
           /\ bmain = "done" /\ mgr = "exit"
           /\ ~IsStream(conns[u].addr)

\* an announced connection is still registered and open after stoplisten
\* for its address, while another one was closed by a closeconn naming it
C13_Witness ==
    /\ \E u \in handed : conns[u].addr \in stoppedAddrs /\ Retained(u)
    /\ \E v \in handed : closeCause[v] = "closeconn" /\ ~conns[v].open

\* C14: after "stopped <addr>" has been written to the child (and until a
\* new listen for that address), no newconn for that address is written
C14_NoNewconnAfterStopped == lateNewconn = {}

\* C15: once a reset has been processed (and until the next listen command)
\* the binder holds no listener and no stream or packet connection, and
\* every connection announced to the child has been closed
C15_NothingHeldAfterReset ==
    resetDone =>
        /\ \A a \in StreamAddrs : listeners[a] = NoListener
        /\ connections = {} /\ packetconnections = {}
        /\ \A u \in handed : ~conns[u].open

(***************************************************************************)
(* Properties of TcpSplit                                                  *)
(***************************************************************************)
IsDecimal(s) == s # <<>> /\ \A i \in 1..Len(s) : s[i] \in DOMAIN DigitVal

\* the buffer seen as leading blanks, a first token up to the first space or
\* LF, that separator, and the bytes after it
Framed(d) ==
    LET t  == TrimLeft(d, Blanks)
        sp == IndexAny(t, {SP, LF})
    IN  [lead   |-> Len(d) - Len(t),
         sp     |-> sp,
         prefix |-> IF sp > 0 THEN TrimRight(SubSeq(t, 1, sp), {CR}) ELSE <<>>,
         rest   |-> IF sp > 0 THEN SubSeq(t, sp + 2, Len(t)) ELSE <<>>]

\* C16: when the first non-blank token of the buffer is a decimal length N
\* followed by a separator, TcpSplit returns the N bytes after the separator,
\* trimmed of space, CR and LF, with an advance of leading blanks + prefix +
\* 1 + N when at least N bytes follow, and no token with advance 0 when
\* fewer than N bytes follow.
C16_OctetCounting ==
    splitPc = "returned" =>
        LET f == Framed(splitData)
            N == DecValue(f.prefix)
        IN  IsDecimal(f.prefix) =>
                /\ ~splitRet.panic
                /\ IF Len(f.rest) >= N
                   THEN /\ splitRet.token = Trim(SubSeq(f.rest, 1, N), Blanks)
                        /\ splitRet.advance = f.lead + f.sp + 1 + N
                        /\ splitRet.err = "nil"
                   ELSE /\ splitRet.advance = 0
                        /\ ~splitRet.hasToken

\* C16 witness: a call on a buffer with length prefix 2 and two bytes after
\* the separator has returned those two bytes.
C16_Witness ==
    /\ splitPc = "returned"
    /\ IsDecimal(Framed(splitData).prefix)
    /\ DecValue(Framed(splitData).prefix) = 2
    /\ Len(splitRet.token) = 2
    /\ splitRet.advance = Len(splitData)

\* C17: when the first non-blank byte is not '<' and the first token is not
\* a decimal length greater than zero, TcpSplit frames by LF: it returns the
\* trimmed text up to the first LF, or asks for more data while no LF is in
\* the buffer, and it never fails.
C17_FallsBackToLF ==
    splitPc = "returned" =>
        LET t  == TrimLeft(splitData, Blanks)
            f  == Framed(splitData)
            lf == IndexByte(t, LF)
        IN  (/\ t # <<>>
             /\ t[1] # "<"
             /\ f.sp > 0
             /\ ~(IsDecimal(f.prefix) /\ DecValue(f.prefix) > 0)) =>
                /\ ~splitRet.panic
                /\ IF lf >= 0
                   THEN /\ splitRet.token = Trim(SubSeq(t, 1, lf), Blanks)
                        /\ splitRet.advance = f.lead + lf + 1
                        /\ splitRet.err = "nil"
                   ELSE /\ splitRet.advance = 0
                        /\ ~splitRet.hasToken

(***************************************************************************)
(* Properties of the TCP source                                            *)
(***************************************************************************)
\* the handler itself ended the connection while scanning
EndedByHandler == connEnd \in {"toolong", "toolarge", "panic"}

\* C18: with max_input_message_size M, a first message of exactly M bytes
\* is queued before the handler gives up on size, and of a first message of
\* M + 1 bytes nothing is ever queued.
C18_SizeBoundary ==
    sentFrames # <<>> =>
        /\ (sentFrames[1].len = MaxMessageSize
              /\ connEnd \in {"toolong", "toolarge"}) => incomingMsgs >= 1
        /\ sentFrames[1].len = MaxMessageSize + 1 => incomingMsgs = 0

\* C19: once the handler has closed a connection whose first line is longer
\* than max_input_message_size, the parsing-errors counter has been
\* incremented and nothing of the connection has been stashed.
C19_OversizeCounted ==
    (/\ sentFrames # <<>>
     /\ sentFrames[1].len > MaxMessageSize
     /\ hpc = "closed"
     /\ EndedByHandler) =>
        /\ ParsingErrorCounter >= 1
        /\ stashed = <<>>

\* C20: every raw message the decoder failed on has incremented the
\* parsing-error counter and is never stashed; a worker whose last message
\* failed to decode goes on to the next Get (it ends only when the queue
\* is disposed and empty), and fatal is raised only by a fatal Stash.
C20_ParseFailureCounted ==
    /\ ParsingErrorCounter = Len(decodeFailed)
    /\ \A i \in 1..Len(decodeFailed), j \in 1..Len(stashed) :
           decodeFailed[i] # stashed[j]
    /\ \A w \in SourceParsers :
           (pdone[w] # <<>> /\ pdone[w][Len(pdone[w])] = "error") =>
               /\ ppc[w] \in {"get", "parse", "exit"}
               /\ ppc[w] = "exit" => rawDisposed /\ rawQueue = <<>>
    /\ srcFatal <=>
           \E w \in SourceParsers :
               pdone[w] # <<>> /\ pdone[w][Len(pdone[w])] = "fatal"

\* C20 witness: one worker met a decoder error on the first raw message and
\* then stashed the second one.
C20_Witness ==
    /\ \E w \in SourceParsers : pdone[w] = <<"error", "ok">>
    /\ decodeFailed = <<1>>
    /\ stashed = <<2>>
    /\ ParsingErrorCounter = 1
    /\ ~srcFatal

\* the result of the last parseOne of worker w, "none" before the first
LastParse(w) == IF pdone[w] = <<>> THEN "none" ELSE pdone[w][Len(pdone[w])]

\* C21: a worker whose Stash returned a fatal error has closed the fatal
\* channel and has stopped consuming the raw queue; the fatal channel is
\* closed only after a fatal Stash, and a worker whose Stash returned only a
\* non-fatal error keeps consuming (it ends only on a disposed, empty queue).
C21_StashFailure ==
    /\ \A w \in SourceParsers :
           LastParse(w) = "fatal" => srcFatal /\ ppc[w] = "exit"
    /\ srcFatal =>
           \E w \in SourceParsers, i \in 1..MaxFrames :
               i <= Len(pdone[w]) /\ pdone[w][i] = "fatal"
    /\ \A w \in SourceParsers :
           (LastParse(w) = "nonfatal" /\ ppc[w] = "exit") =>
               rawDisposed /\ rawQueue = <<>>

\* C21 witness: one worker stopped on a fatal Stash error with the fatal
\* channel closed, after it had gone on past a non-fatal one.
C21_Witness ==
    \E w \in SourceParsers :
        /\ pdone[w] = <<"nonfatal", "fatal">>
        /\ ppc[w] = "exit"
        /\ srcFatal
        /\ ~rawDisposed

\* C30: when the buffer begins with '<', or its first token is not a number,
\* and no LF is in the buffer and the stream is not at EOF, TcpSplit asks for
\* more data: advance 0, no token, no error, no failure.
C30_IncompleteLineWaits ==
    splitPc = "returned" =>
        LET t == TrimLeft(splitData, Blanks)
            f == Framed(splitData)
        IN  (/\ ~splitAtEOF
             /\ t # <<>>
             /\ IndexByte(t, LF) < 0
             /\ \/ t[1] = "<"
                \/ f.sp > 0 /\ Atoi(Trim(SubSeq(t, 1, f.sp), Blanks)).err) =>
                /\ ~splitRet.panic
                /\ splitRet.advance = 0
                /\ ~splitRet.hasToken
                /\ splitRet.err = "nil"

\* the stages of doStop on a Started service happen in order
StopOrder ==
    /\ rawQDisposed => ~listening
    /\ parsedDisposed => rawQDisposed /\ parsewg = 0
    /\ connsRemoved => parsedDisposed

C27_ParamsKept ==
    \A i \in 1..Len(provUsed) :
        provUsed[i].decoded # NoParams =>
            provUsed[i].used = provUsed[i].decoded

(***************************************************************************)
(* Properties of ConfigurationService.Start and setupConfiguration         *)
(***************************************************************************)
\* the first thing read from the child that decides the result of Start
Deciding == {"started", "starterror", "unknown", "newconf_bad", "eof"}
FirstDeciding ==
    IF \E i \in 1..Len(readLog) : readLog[i] \in Deciding
    THEN readLog[CHOOSE i \in 1..Len(readLog) :
                     /\ readLog[i] \in Deciding
                     /\ \A j \in 1..(i - 1) : readLog[j] \notin Deciding]
    ELSE "none"

\* C26: Start returns nil only when the child emitted started before any
\* starterror, unknown command, malformed newconf or end of output, and an
\* error when one of those came first; startedChan carries at most one
\* value, is closed at most once and is never sent to after its close.
C26_StartResult ==
    /\ startResult = "nil" => FirstDeciding = "started"
    /\ (csPc \in {"returned", "setup_error", "wait_conf", "ready", "panic"}
          /\ FirstDeciding \notin {"none", "started"}) => startResult = "error"
    /\ startedSends <= 1
    /\ startedCloses <= 1
    /\ ~sentAfterClose

\* C26 as stated: whenever startedChan was made it ends up closed, once.
C26_ClosedExactlyOnce ==
    /\ [](startedCloses <= 1)
    /\ (rdPc # "off") ~> (startedCloses = 1)

\* C26 witness: started was read, then starterror; Start returned nil, and
\* the channel was closed once without a value.
C26_Witness ==
    /\ readLog = <<"started", "starterror">>
    /\ startResult = "nil"
    /\ csPc = "wait_conf"
    /\ startedCloses = 1
    /\ startedSends = 0
    /\ rdPc = "done"

\* C28: setupConfiguration never uses a configuration it did not receive:
\* when the output channel is closed before a first newconf it reports an
\* error.
C28_NoAbsentConf == csPc # "panic"

(***************************************************************************)
(* Properties of the supervisor                                            *)
(***************************************************************************)
\* C23: after any sequence of configurations received by the Serve loop,
\* the Store section and Main.EncryptIPC of the active configuration are
\* those in effect at startup.
C23_StoreFixed ==
    /\ supConf.Store = startConf.Store
    /\ supConf.EncryptIPC = startConf.EncryptIPC

\* C23 witness: a configuration naming another store directory and another
\* EncryptIPC was received and made active.
C23_Witness ==
    /\ confsReceived > 0
    /\ lastNewConf.Store # startConf.Store
    /\ lastNewConf.EncryptIPC # startConf.EncryptIPC
    /\ supPc = "select"

\* C24: once the controllers run, a SIGTERM or SIGINT received by the
\* process, a store publishing on ShutdownChan and a closed configuration
\* channel each lead to Serve returning.
C24_Termination ==
    ((termQueued \/ storeShut \/ confChanClosed) /\ supPc \in {"top", "select"})
        ~> (supPc \in {"returned", "done"})

\* C25: the store is shut down only after every source controller that
\* runs has been shut down.
C25_StoreShutdownLast ==
    storeShutdown =>
        \A typ \in Controllers :
            (typ = "Journal" /\ ~supJournald) \/ typ \in ctlShut

\* C25 witness: journald is supported, the five controllers were shut down
\* and then the store.
C25_Witness ==
    /\ storeShutdown
    /\ supJournald
    /\ ctlShut = Controllers

\* C31: every call of TcpSplit returns without panicking, with
\* 0 <= advance <= len(data) and a token no longer than the buffer.
C31_TotalInBounds ==
    splitPc = "returned" =>
        /\ ~splitRet.panic
        /\ 0 <= splitRet.advance
        /\ splitRet.advance <= Len(splitData)
        /\ Len(splitRet.token) <= Len(splitData)

\* C32: handleResponses writes at most one rsp frame for each txnr; only
\* the first verdict recorded for a txnr is kept, and the frame written
\* carries that verdict.
C32_OneResponsePerTxnr ==
    /\ \A i, j \in 1..Len(written) :
           written[i].txnr = written[j].txnr => i = j
    /\ \A t \in Txnrs : successes[t] = "absent" \/ failures[t] = "absent"
    /\ \A i \in 1..Len(written) :
           IF written[i].code = 200
           THEN successes[written[i].txnr] = "false"
           ELSE failures[written[i].txnr] = "false"

\* C32 witness: three verdicts, successes and failures, were forwarded for
\* one txnr and all were read; one frame was written.
C32_Witness ==
    /\ nverdicts = MaxVerdicts
    /\ verdicted = {1}
    /\ fwdSucc = <<>> /\ fwdFail = <<>>
    /\ Len(written) = 1
    /\ written[1].code = 500
    /\ hrpc = "wait"

(***************************************************************************)
(* Properties of pushOne                                                   *)
(***************************************************************************)
\* C33: for every message pushOne takes, it either submits the message to
\* the Kafka producer or calls ForwardFail for its (conn_id, txnr).
C33_TerminalVerdict ==
    \A i \in 1..Len(pushLog) : pushLog[i].fail \/ pushLog[i].submit

C35_StopTerminates ==
    \A g \in Stoppers :
        (spc[g] = "stop_rawq")
            ~> (wg = 0 /\ status # "Started" /\ statusLock # g)

(***************************************************************************)
(* Properties of IntQueue                                                  *)
(***************************************************************************)
\* C36: on a non-disposed IntQueue no Has() returns false and no Get()
\* returns (-1, nil) while a value whose Put returned nil has not been
\* consumed; the consumer gets the values in the order the Puts took
\* effect, each once.
C36_PutIsVisible ==
    /\ ~iqDisposed => ~iqHasMissed /\ ~iqGetMissed
    /\ IsPrefix(iqGot, iqOrder)

(***************************************************************************)
(* More properties of the TCP destination                                  *)
(***************************************************************************)
TcpOutcomes(u) == tcpReports[u].ack + tcpReports[u].nack + tcpReports[u].permerr

\* C37: every uid gets at most one of ack, nack, permerr; an ack only
\* after its own write succeeded; a failed send is reported with nack or
\* permerr at once; a write error also nacks the uid written before and
\* not yet acked (so only the last written uid can be without report) and
\* closes the fatal channel, which nothing else does.
C37_TcpOutcomes ==
    /\ \A u \in TcpUids : TcpOutcomes(u) <= 1
    /\ \A u \in TcpUids : tcpReports[u].ack = 1 => u \in tcpWritten
    /\ \A u \in 1..tcpSent :
           u \notin tcpWritten =>
               tcpReports[u].nack + tcpReports[u].permerr = 1
    /\ \A u \in tcpWritten : u # previousUid => TcpOutcomes(u) = 1
    /\ (\E u \in TcpUids : tcpReports[u].nack = 1) <=> tcpFatal = 1
    /\ tcpFatal <= 1

\* C37 witness: a write succeeded and was acked by the next one, which was
\* nacked together with the failing uid of a write error; an encoding
\* error gave a permerr.
C37_Witness ==
    /\ tcpReports[1].ack = 1
    /\ tcpReports[2].nack = 1 /\ 2 \in tcpWritten
    /\ tcpReports[3].nack = 1 /\ 3 \notin tcpWritten
    /\ tcpReports[4].permerr = 1
    /\ tcpFatal = 1

(***************************************************************************)
(* More properties of the HTTP destination                                 *)
(***************************************************************************)
HttpOutcomes(u) ==
    httpReports[u].ack + httpReports[u].nack + httpReports[u].permerr

ReloadSnapshotAt(i) ==
    /\ rlOut[i].header = "newconf"
    /\ rlOut[i].by = "main"
    /\ rlKind[rlOut[i].gen] = "reload"

\* C39: after the snapshot newconf of a reload has been written, no
\* writeNewConf goroutine of an earlier load writes a newconf; the frames of
\* a successful reload are started, newconf, reloaded in that order.
C39_NoStaleNewconf ==
    /\ \A i, j \in 1..Len(rlOut) :
           (i < j /\ ReloadSnapshotAt(i)) =>
               ~(/\ rlOut[j].header = "newconf"
                 /\ rlOut[j].by = "writeNewConf"
                 /\ rlOut[j].gen < rlOut[i].gen)
    /\ \A k \in 1..Len(rlOut) :
           rlOut[k].header = "reloaded" =>
               \E i, j \in 1..k :
                   /\ i < j
                   /\ rlOut[i] = [header |-> "started", gen |-> rlOut[k].gen,
                                  by |-> "main"]
                   /\ rlOut[j] = [header |-> "newconf", gen |-> rlOut[k].gen,
                                  by |-> "main"]

(***************************************************************************)
(* More properties of serveChild.Serve                                     *)
(***************************************************************************)
\* C40: once the shutdown context is cancelled, Serve takes no further
\* configuration to Reload and asks the configuration service for no
\* further reload.
C40_NoReloadAfterShutdown ==
    [][shutdownDone =>
          /\ confsReceived' = confsReceived
          /\ reloadsAsked' = reloadsAsked]_vars

=============================================================================
